---- MODULE Spec2Model ----
(***************************************************************************)
(* Santa Says: the command authority (SantaController, js/santa.js) and    *)
(* the navigation controller (Game, the waypoint-maze variant with hard    *)
(* mode).  The Game's elapsed-time counter, the render loop and the        *)
(* printer are not part of the model; the screens are, because the start   *)
(* and play-again buttons exist only on their own screen.                  *)
(*                                                                         *)
(* The repository also holds an older Game, the countdown variant          *)
(* (js/game.js): a shorter path, a counter of correct moves that decides   *)
(* the win, a 60 s countdown, and every trap sends the player back to the  *)
(* start.  It is specified separately (SpecCountdown) on the same          *)
(* variables; SpecBoth is the union of the two builds, FairSpec is Spec    *)
(* with a fair event loop.                                                 *)
(*                                                                         *)
(* Time is discrete, one unit = 100 ms (the gcd of every setTimeout delay  *)
(* in the program).  A timer is a record in the set `timers`; it fires     *)
(* when its remaining time is 0 and the clock cannot pass a due timer.     *)
(* Player input may arrive at any instant.                                 *)
(***************************************************************************)
EXTENDS Integers, Sequences, FiniteSets, TLC

\* ---------------------------------------------------------------------
\* Program constants (delays in units of 100 ms)
\* ---------------------------------------------------------------------
urgencyDelay == 40
maxConsecutiveTricks == 2
startDelay == 10
holdDelay == 15
walkDelay == 3
trapDelay == 30
resumeDelay == 10
winDelay == 20

\* ---------------------------------------------------------------------
\* Bounds of the model (saturation points of the observation counters)
\* ---------------------------------------------------------------------
AgeCap == 90
CountCap == 2
StreakCap == 3
IssuedCap == 5

Null == "null"

\* allDirections of generateCommand, in source order
allDirections == <<"forward", "left", "right">>

\* Directions the UI shell can hand to handleMove (compass buttons carry a
\* data-direction; the keyboard map yields forward/left/right only)
KeyDirections == {"forward", "left", "right"}
CompassDirections == {"forward", "left", "right", "backward"}

\* ---------------------------------------------------------------------
\* SOLUTION_PATH: 17 waypoints; position (x, y), facing, type, correctMove,
\* availableMoves
\* ---------------------------------------------------------------------
\* Faulty variant: the waypoint lists only its correct move
WP_OnlyCorrectMove(x, y, facing, type, correctMove, availableMoves) ==
    [x |-> x, y |-> y, facing |-> facing, type |-> type,
     correctMove |-> correctMove, availableMoves |-> <<correctMove>>]

WP(x, y, facing, type, correctMove, availableMoves) ==
    [x |-> x, y |-> y, facing |-> facing, type |-> type,
     correctMove |-> correctMove, availableMoves |-> availableMoves]

SOLUTION_PATH ==
    << WP(1, 1, "East", "start", "forward", <<"forward">>),
       WP(8, 1, "South", "corridor", "forward", <<"forward">>),
       WP(8, 3, "South", "t-junction", "left", <<"left", "right">>),
       WP(15, 3, "South", "corridor", "forward", <<"forward">>),
       WP(15, 5, "South", "t-junction", "right", <<"left", "right">>),
       WP(2, 5, "South", "corridor", "forward", <<"forward">>),
       WP(2, 7, "South", "t-junction", "left", <<"left", "right">>),
       WP(16, 7, "South", "corridor", "forward", <<"forward">>),
       WP(16, 9, "South", "t-junction", "right", <<"left", "right">>),
       WP(5, 9, "South", "corridor", "forward", <<"forward">>),
       WP(5, 11, "South", "t-junction", "left", <<"left", "right">>),
       WP(13, 11, "South", "corridor", "forward", <<"forward">>),
       WP(13, 13, "South", "corridor", "forward", <<"forward">>),
       WP(13, 14, "South", "corridor", "forward", <<"forward">>),
       WP(13, 15, "South", "t-junction", "right", <<"left", "right">>),
       WP(3, 15, "South", "corridor", "forward", <<"forward">>),
       WP(3, 19, "South", "end", Null, << >>) >>

\* mazePath is a copy of SOLUTION_PATH made by generateMaze and never mutated
mazePath == SOLUTION_PATH

PathLength == Len(mazePath)

\* mazePath[i] with the source's 0-based index
WaypointAt(i) == mazePath[i + 1]

\* The pose the Game gives the player at a waypoint: centre of the cell
\* (coordinates are kept doubled, so x + 0.5 is 2x + 1) and stored facing
PoseOf(wp) == [x |-> 2 * wp.x + 1, y |-> 2 * wp.y + 1, angle |-> wp.facing]

VARIABLES
    santa,      \* the SantaController held by the Game (this.santa)
    game,       \* the Game's own fields
    timers,     \* pending setTimeout callbacks
    turn,       \* observation of the current command's escalation
    streak,     \* observation: unauthorized commands issued back-to-back
    lastEvent   \* observation: the handler that ran last and what it saw

vars == <<santa, game, timers, turn, streak, lastEvent>>

SantaTimerKinds == {"urgency", "timeout", "patience"}
GiveNextKinds == {"startDelay", "holdDelay", "resumeDelay"}

\* ---------------------------------------------------------------------
\* Timers
\* ---------------------------------------------------------------------
\* A fresh timer id: browsers never hand out an id that is still in use,
\* nor one the controller still holds as a handle
NewId(ts, handle) ==
    LET used == {t.id : t \in ts} \cup {handle}
    IN  CHOOSE n \in 1..(Cardinality(used) + 1) : n \notin used

\* old: the timer was set for a command that is no longer the active one
\* orphan: the timer belongs to a SantaController the Game has replaced
Timer(id, kind, rem) ==
    [id |-> id, kind |-> kind, rem |-> rem, old |-> FALSE, orphan |-> FALSE]

SantaTimers == {t \in timers : t.kind \in SantaTimerKinds}

\* ---------------------------------------------------------------------
\* SantaController
\* ---------------------------------------------------------------------
\* State after the constructor; `constructed` is FALSE while Game.santa is
\* still null
NewSanta(hardMode, constructed) ==
    [constructed |-> constructed,
     hardMode |-> hardMode,
     currentDirection |-> Null,
     correctDirection |-> Null,
     isSantaSays |-> TRUE,
     isSimonSays |-> FALSE,
     isUrgent |-> FALSE,
     urgencyTimeout |-> 0,
     consecutiveTricks |-> 0]

\* A "world" w pairs the controller with the timer set its calls act on
World(s, ts) == [santa |-> s, timers |-> ts]

\* Faulty variant: the handle is forgotten but the timer is left running
clearUrgency_LeavesTimer(w) ==
    World([w.santa EXCEPT !.urgencyTimeout = 0], w.timers)

clearUrgency(w) ==
    IF w.santa.urgencyTimeout # 0
    THEN World([w.santa EXCEPT !.urgencyTimeout = 0],
               {t \in w.timers : t.id # w.santa.urgencyTimeout})
    ELSE w

\* The random draws of one generateCommand call
Draws ==
    [santaSays : BOOLEAN, simon : BOOLEAN,
     trickType : {"correct", "wrong", "random"},
     pickWrong : 0..1, pickAll : 0..2]

wrongDirections(correctMove) ==
    SelectSeq(allDirections, LAMBDA d : d # correctMove)

\* The direction a plain trick command names
trickDirection(correctMove, rnd) ==
    IF rnd.trickType = "correct" THEN correctMove
    ELSE IF rnd.trickType = "wrong"
         THEN wrongDirections(correctMove)[rnd.pickWrong + 1]
         ELSE allDirections[rnd.pickAll + 1]

\* Faulty variant: the streak guard never forces an authorized command
forcedSantaSays_Never(s) == FALSE

\* Faulty variant: the streak guard compares with > instead of >=
forcedSantaSays_OffByOne(s) == s.consecutiveTricks > maxConsecutiveTricks

\* Is a real "Santa says" command forced by the streak guard?
forcedSantaSays(s) == s.consecutiveTricks >= maxConsecutiveTricks

\* Faulty variant: an authorized command draws its direction like a trick
commandDirection_AuthorizedDrawn(isSantaSays, isSimonSaysTrap, correctMove, rnd) ==
    IF isSimonSaysTrap THEN correctMove
    ELSE trickDirection(correctMove, rnd)

\* Faulty variant: a Simon Says decoy draws its direction like a trick
commandDirection_DecoyDrawn(isSantaSays, isSimonSaysTrap, correctMove, rnd) ==
    IF isSantaSays THEN correctMove
    ELSE trickDirection(correctMove, rnd)

\* The direction the command names
commandDirection(isSantaSays, isSimonSaysTrap, correctMove, rnd) ==
    IF isSantaSays THEN correctMove
    ELSE IF isSimonSaysTrap THEN correctMove
    ELSE trickDirection(correctMove, rnd)

\* Faulty variant: the Simon Says draw is made outside hard mode too
generateCommand_SimonAnyMode(w, correctMove, rnd) ==
    LET w1 == clearUrgency(w)
        s1 == w1.santa
        forced == forcedSantaSays(s1)
        isSantaSays == IF forced THEN TRUE ELSE rnd.santaSays
        tricks0 == IF forced THEN 0 ELSE s1.consecutiveTricks
        tricks == IF ~isSantaSays THEN tricks0 + 1 ELSE 0
        isSimonSaysTrap == ~isSantaSays /\ rnd.simon
        direction == commandDirection(isSantaSays, isSimonSaysTrap, correctMove, rnd)
        id == NewId(w1.timers, s1.urgencyTimeout)
        kind == IF isSantaSays THEN "urgency" ELSE "patience"
    IN  World([s1 EXCEPT !.correctDirection = correctMove,
                         !.isSimonSays = isSimonSaysTrap,
                         !.consecutiveTricks = tricks,
                         !.currentDirection = direction,
                         !.isSantaSays = isSantaSays,
                         !.isUrgent = FALSE,
                         !.urgencyTimeout = id],
              w1.timers \cup {Timer(id, kind, urgencyDelay)})

generateCommand(w, correctMove, rnd) ==
    LET w1 == clearUrgency(w)
        s1 == w1.santa
        forced == forcedSantaSays(s1)
        isSantaSays == IF forced THEN TRUE ELSE rnd.santaSays
        tricks0 == IF forced THEN 0 ELSE s1.consecutiveTricks
        tricks == IF ~isSantaSays THEN tricks0 + 1 ELSE 0
        isSimonSaysTrap == s1.hardMode /\ ~isSantaSays /\ rnd.simon
        direction == commandDirection(isSantaSays, isSimonSaysTrap, correctMove, rnd)
        id == NewId(w1.timers, s1.urgencyTimeout)
        kind == IF isSantaSays THEN "urgency" ELSE "patience"
    IN  World([s1 EXCEPT !.correctDirection = correctMove,
                         !.isSimonSays = isSimonSaysTrap,
                         !.consecutiveTricks = tricks,
                         !.currentDirection = direction,
                         !.isSantaSays = isSantaSays,
                         !.isUrgent = FALSE,
                         !.urgencyTimeout = id],
              w1.timers \cup {Timer(id, kind, urgencyDelay)})

\* Faulty variant: the direction is compared before the authorization
validateResult_DirectionFirst(s, playerDirection) ==
    IF s.isSimonSays
    THEN [valid |-> FALSE, reason |-> "simon_says"]
    ELSE IF playerDirection = s.correctDirection
    THEN [valid |-> TRUE, reason |-> "correct"]
    ELSE IF ~s.isSantaSays
    THEN [valid |-> FALSE, reason |-> "didnt_say"]
    ELSE [valid |-> FALSE, reason |-> "wrong_direction"]

\* Faulty variant: the "didn't say" rule is tested before the Simon rule
validateResult_SimonSecond(s, playerDirection) ==
    IF ~s.isSantaSays
    THEN [valid |-> FALSE, reason |-> "didnt_say"]
    ELSE IF s.isSimonSays
    THEN [valid |-> FALSE, reason |-> "simon_says"]
    ELSE IF playerDirection = s.correctDirection
    THEN [valid |-> TRUE, reason |-> "correct"]
    ELSE [valid |-> FALSE, reason |-> "wrong_direction"]

\* Faulty variant: an authorized move is accepted whatever its direction
validateResult_AnyDirection(s, playerDirection) ==
    IF s.isSimonSays
    THEN [valid |-> FALSE, reason |-> "simon_says"]
    ELSE IF ~s.isSantaSays
    THEN [valid |-> FALSE, reason |-> "didnt_say"]
    ELSE [valid |-> TRUE, reason |-> "correct"]

\* validateMove's judgment on the stored state
validateResult(s, playerDirection) ==
    IF s.isSimonSays
    THEN [valid |-> FALSE, reason |-> "simon_says"]
    ELSE IF ~s.isSantaSays
    THEN [valid |-> FALSE, reason |-> "didnt_say"]
    ELSE IF playerDirection = s.correctDirection
    THEN [valid |-> TRUE, reason |-> "correct"]
    ELSE [valid |-> FALSE, reason |-> "wrong_direction"]

\* Faulty variant: validateMove judges without clearing the timer
validateMove_KeepsTimer(w) == w

\* Faulty variant: validating also ends the urgent state
validateMove_ClearsUrgent(w) ==
    LET w1 == clearUrgency(w)
    IN  World([w1.santa EXCEPT !.isUrgent = FALSE], w1.timers)

\* validateMove's effect on the controller and the timers
validateMove(w) == clearUrgency(w)

reset(w) ==
    LET w1 == clearUrgency(w)
    IN  World([w1.santa EXCEPT !.currentDirection = Null,
                               !.correctDirection = Null,
                               !.isSantaSays = TRUE,
                               !.isSimonSays = FALSE,
                               !.isUrgent = FALSE,
                               !.consecutiveTricks = 0],
              w1.timers)

\* ---------------------------------------------------------------------
\* Observation helpers
\* ---------------------------------------------------------------------
Min(a, b) == IF a < b THEN a ELSE b

\* What a handler observed: its argument, the direction and reason it
\* produced, the random draw it made, the streak counter it started from,
\* whether a timer callback was a stale one, whether it called handleWin,
\* the pathIndex (at) and progress counter (count) it started from, and for
\* a new command the pathIndex the previous command was issued at (prev)
NoEvent ==
    [op |-> "init", arg |-> Null, dir |-> Null, reason |-> Null,
     valid |-> FALSE, draw |-> FALSE, n |-> 0, stale |-> FALSE,
     win |-> FALSE, at |-> 0, count |-> 0, prev |-> -1]

Event(op) == [NoEvent EXCEPT !.op = op]

\* at: the pathIndex the command was issued at, -1 before the first command
\* moves: validateMove calls since the last generateCommand call, whichever
\* controller they were made on
\* issued: generateCommand calls made at the waypoint of the latest command
\* (turn.at), kept only when the run starts with the count switched on
\* (-1 otherwise)
NoTurn ==
    [phase |-> "None", age |-> 0, validations |-> 0, timeouts |-> 0, at |-> -1,
     moves |-> 0, issued |-> -1]

Counted(n) == IF turn.issued < 0 THEN -1 ELSE n

\* the streak observation is likewise kept only when the run starts with
\* it switched on (streak = 0), and stays -1 otherwise
Observed(n) == IF streak < 0 THEN -1 ELSE n

\* A surviving controller timer no longer belongs to the active command
MarkOld(ts) ==
    {IF t.kind \in SantaTimerKinds /\ ~t.orphan THEN [t EXCEPT !.old = TRUE] ELSE t
        : t \in ts}

MarkOrphan(ts) ==
    {IF t.kind \in SantaTimerKinds THEN [t EXCEPT !.orphan = TRUE] ELSE t
        : t \in ts}

\* ---------------------------------------------------------------------
\* Game
\* ---------------------------------------------------------------------
Init ==
    /\ santa = NewSanta(FALSE, FALSE)
    /\ game = [variant |-> "maze",
               screen |-> "start",
               isPlaying |-> FALSE,
               canMove |-> FALSE,
               hardMode |-> FALSE,
               pathIndex |-> 0,
               player |-> [x |-> 3, y |-> 3, angle |-> "East"],
               trapReason |-> Null,
               wins |-> 0,
               timerInterval |-> FALSE]
    /\ timers = {}
    /\ turn = NoTurn
    /\ streak = 0
    /\ lastEvent = NoEvent

\* The start button lives on the start screen, which startGame hides
StartGame ==
    /\ game.screen = "start"
    /\ \E hardModeToggle \in BOOLEAN :
        /\ santa' = NewSanta(hardModeToggle, TRUE)
        /\ game' = [game EXCEPT !.hardMode = hardModeToggle,
                                !.player = PoseOf(WaypointAt(0)),
                                !.pathIndex = 0,
                                !.isPlaying = TRUE,
                                !.canMove = TRUE,
                                !.screen = "game",
                                !.trapReason = Null,
                                !.timerInterval = TRUE,
                                !.wins = 0]
        /\ timers' = MarkOrphan(timers)
                        \cup {Timer(NewId(timers, 0), "startDelay", startDelay)}
    /\ turn' = [NoTurn EXCEPT !.moves = turn.moves, !.issued = Counted(0)]
    /\ streak' = Observed(0)
    /\ lastEvent' = Event("startGame")

\* handleWin / triggerTrap / recovery as functions of the Game record and
\* the world; each returns the new Game record and world
Outcome(g, w) == [game |-> g, world |-> w]

AddTimer(w, kind, delay) ==
    World(w.santa,
          w.timers \cup {Timer(NewId(w.timers, w.santa.urgencyTimeout), kind, delay)})

\* Faulty variant: the trap leaves the controller's timer running
triggerTrap_KeepsTimer(g, w, reason) ==
    Outcome([g EXCEPT !.isPlaying = FALSE, !.canMove = FALSE,
                      !.timerInterval = FALSE, !.trapReason = reason],
            AddTimer(w, "trap", trapDelay))

\* Faulty variant: the trap leaves the game timer running
triggerTrap_LeavesGameTimer(g, w, reason) ==
    Outcome([g EXCEPT !.isPlaying = FALSE, !.canMove = FALSE, !.trapReason = reason],
            AddTimer(clearUrgency(w), "trap", trapDelay))

\* timerInterval: the handle startTimer stores and stopTimer nulls (TRUE
\* while an interval is live)
triggerTrap(g, w, reason) ==
    Outcome([g EXCEPT !.isPlaying = FALSE, !.canMove = FALSE,
                      !.timerInterval = FALSE, !.trapReason = reason],
            AddTimer(clearUrgency(w), "trap", trapDelay))

\* Faulty variant: the win does not stop play
handleWin_KeepsPlaying(g, w) ==
    Outcome([g EXCEPT !.canMove = FALSE, !.timerInterval = FALSE,
                      !.wins = Min(@ + 1, CountCap)],
            AddTimer(w, "win", winDelay))

\* wins observes the calls of handleWin since the last startGame
handleWin(g, w) ==
    Outcome([g EXCEPT !.isPlaying = FALSE, !.canMove = FALSE,
                      !.timerInterval = FALSE,
                      !.wins = Min(@ + 1, CountCap)],
            AddTimer(w, "win", winDelay))

\* index of the next waypoint, -1 for the source's null
getNextWaypoint(g) ==
    IF g.pathIndex >= PathLength - 1 THEN -1 ELSE g.pathIndex + 1

\* Faulty variant: the win branch is taken one waypoint early
reachesEnd_Early(g) ==
    \/ g.pathIndex + 2 >= PathLength
    \/ WaypointAt(g.pathIndex + 2).type = "end"

\* TRUE when handleCorrectMove takes the win branch
reachesEnd(g) ==
    \/ getNextWaypoint(g) = -1
    \/ WaypointAt(getNextWaypoint(g)).type = "end"

\* Faulty variant: a correct move short of the End schedules no next command
handleCorrectMove_NoNextCommand(g, w) ==
    LET w1 == AddTimer(w, "walk", walkDelay)
    IN  IF reachesEnd(g)
        THEN handleWin(g, w1)
        ELSE Outcome(g, w1)

handleCorrectMove(g, w) ==
    LET w1 == AddTimer(w, "walk", walkDelay)
    IN  IF reachesEnd(g)
        THEN handleWin(g, w1)
        ELSE Outcome(g, AddTimer(w1, "holdDelay", holdDelay))

\* Faulty variant: the two reasons are confused, so an expired authorized
\* command is rewarded like patience
handleTimeout_Swapped(g, w, reason) ==
    IF ~g.isPlaying THEN Outcome(g, w)
    ELSE IF reason # "patience"
         THEN Outcome(g, AddTimer(w, "holdDelay", holdDelay))
         ELSE triggerTrap(g, w, "timeout")

\* Faulty variant: a patience success schedules no next command
handleTimeout_NoContinue(g, w, reason) ==
    IF ~g.isPlaying THEN Outcome(g, w)
    ELSE IF reason = "patience"
         THEN Outcome(g, w)
         ELSE triggerTrap(g, w, "timeout")

handleTimeout(g, w, reason) ==
    IF ~g.isPlaying THEN Outcome(g, w)
    ELSE IF reason = "patience"
         THEN Outcome(g, AddTimer(w, "holdDelay", holdDelay))
         ELSE triggerTrap(g, w, "timeout")

\* Faulty variant: the player is turned to the start pose but the path
\* index is kept
resetToStart_KeepsIndex(g, w) ==
    Outcome([g EXCEPT !.isPlaying = TRUE, !.timerInterval = TRUE,
                      !.player = PoseOf(WaypointAt(0)), !.trapReason = Null],
            AddTimer(reset(w), "resumeDelay", resumeDelay))

resetToStart(g, w) ==
    Outcome([g EXCEPT !.pathIndex = 0, !.isPlaying = TRUE,
                      !.timerInterval = TRUE,
                      !.player = PoseOf(WaypointAt(0)), !.trapReason = Null],
            AddTimer(reset(w), "resumeDelay", resumeDelay))

\* Faulty variant: the lenient recovery also sends the player back
resumeFromCurrentPosition_Resets(g, w) ==
    Outcome([g EXCEPT !.pathIndex = 0, !.isPlaying = TRUE,
                      !.timerInterval = TRUE,
                      !.player = PoseOf(WaypointAt(0)), !.trapReason = Null],
            AddTimer(reset(w), "resumeDelay", resumeDelay))

\* Faulty variant: the recovery forgets to set isPlaying again
resumeFromCurrentPosition_StaysStopped(g, w) ==
    Outcome([g EXCEPT !.trapReason = Null],
            AddTimer(reset(w), "resumeDelay", resumeDelay))

resumeFromCurrentPosition(g, w) ==
    Outcome([g EXCEPT !.isPlaying = TRUE, !.timerInterval = TRUE,
                      !.trapReason = Null],
            AddTimer(reset(w), "resumeDelay", resumeDelay))

\* Faulty variant: the walk skips two waypoints
advancePlayer_SkipsTwo(g) ==
    LET i == g.pathIndex + 3
    IN  IF i < PathLength
        THEN [g EXCEPT !.pathIndex = i, !.player = PoseOf(WaypointAt(i))]
        ELSE [g EXCEPT !.pathIndex = i]

\* Faulty variant: the index advances but the pose is left behind
advancePlayer_KeepsPose(g) == [g EXCEPT !.pathIndex = g.pathIndex + 1]

advancePlayer(g) ==
    LET i == g.pathIndex + 1
    IN  IF i < PathLength
        THEN [g EXCEPT !.pathIndex = i, !.player = PoseOf(WaypointAt(i))]
        ELSE [g EXCEPT !.pathIndex = i]

Due(kinds) == {t \in timers : t.kind \in kinds /\ t.rem = 0}

\* Faulty variant: giveNextCommand does not test isPlaying
GiveNextCommand_IgnoresPlaying ==
    \E t \in Due(GiveNextKinds) :
        LET ts == timers \ {t}
            wp == IF game.pathIndex < PathLength THEN WaypointAt(game.pathIndex)
                  ELSE [correctMove |-> Null]
        IN  IF wp.correctMove = Null
            THEN /\ timers' = ts
                 /\ lastEvent' = [Event("giveNextCommand") EXCEPT
                        !.reason = IF ~game.isPlaying THEN "not_playing" ELSE "no_move"]
                 /\ UNCHANGED <<santa, game, turn, streak>>
            ELSE \E rnd \in Draws :
                 LET w2 == generateCommand(World(santa, ts), wp.correctMove, rnd)
                     new == {x \in w2.timers : x.id = w2.santa.urgencyTimeout}
                 IN  /\ santa' = w2.santa
                     /\ timers' = MarkOld(w2.timers \ new) \cup new
                     /\ game' = [game EXCEPT !.canMove = TRUE]
                     /\ turn' = [NoTurn EXCEPT
                            !.phase = "Issued",
                            !.at = game.pathIndex,
                            !.issued = Counted(IF turn.at = game.pathIndex
                                               THEN Min(turn.issued + 1, IssuedCap)
                                               ELSE 1)]
                     /\ streak' = Observed(IF w2.santa.isSantaSays THEN 0
                                            ELSE Min(streak + 1, StreakCap))
                     /\ lastEvent' = [Event("generateCommand") EXCEPT
                            !.arg = wp.correctMove,
                            !.dir = w2.santa.currentDirection,
                            !.draw = rnd.santaSays,
                            !.n = santa.consecutiveTricks,
                            !.reason = t.kind,
                            !.at = game.pathIndex,
                            !.prev = turn.at]

\* giveNextCommand, run by the start, hold and resume delay timers
GiveNextCommand ==
    \E t \in Due(GiveNextKinds) :
        LET ts == timers \ {t}
            wp == IF game.pathIndex < PathLength THEN WaypointAt(game.pathIndex)
                  ELSE [correctMove |-> Null]
        IN  IF ~game.isPlaying \/ wp.correctMove = Null
            THEN /\ timers' = ts
                 /\ lastEvent' = [Event("giveNextCommand") EXCEPT
                        !.reason = IF ~game.isPlaying THEN "not_playing" ELSE "no_move"]
                 /\ UNCHANGED <<santa, game, turn, streak>>
            ELSE \E rnd \in Draws :
                 LET w2 == generateCommand(World(santa, ts), wp.correctMove, rnd)
                     new == {x \in w2.timers : x.id = w2.santa.urgencyTimeout}
                 IN  /\ santa' = w2.santa
                     /\ timers' = MarkOld(w2.timers \ new) \cup new
                     /\ game' = [game EXCEPT !.canMove = TRUE]
                     /\ turn' = [NoTurn EXCEPT
                            !.phase = "Issued",
                            !.at = game.pathIndex,
                            !.issued = Counted(IF turn.at = game.pathIndex
                                               THEN Min(turn.issued + 1, IssuedCap)
                                               ELSE 1)]
                     /\ streak' = Observed(IF w2.santa.isSantaSays THEN 0
                                            ELSE Min(streak + 1, StreakCap))
                     /\ lastEvent' = [Event("generateCommand") EXCEPT
                            !.arg = wp.correctMove,
                            !.dir = w2.santa.currentDirection,
                            !.draw = rnd.santaSays,
                            !.n = santa.consecutiveTricks,
                            !.reason = t.kind,
                            !.at = game.pathIndex,
                            !.prev = turn.at]

\* Faulty variant: the guard of handleMove tests isPlaying only
HandleMove_IgnoresCanMove(direction) ==
    IF ~game.isPlaying
    THEN /\ lastEvent' = [Event("handleMoveIgnored") EXCEPT !.arg = direction]
         /\ UNCHANGED <<santa, game, timers, turn, streak>>
    ELSE LET result == validateResult(santa, direction)
             w1 == validateMove(World(santa, timers))
             g1 == [game EXCEPT !.canMove = FALSE]
             out == IF result.valid THEN handleCorrectMove(g1, w1)
                    ELSE triggerTrap(g1, w1, result.reason)
         IN  /\ santa' = out.world.santa
             /\ timers' = out.world.timers
             /\ game' = out.game
             /\ turn' = [turn EXCEPT
                    !.phase = IF @ \in {"Issued", "Urgent"} THEN "Resolved" ELSE @,
                    !.age = 0,
                    !.validations = Min(@ + 1, CountCap),
                    !.moves = Min(@ + 1, CountCap)]
             /\ lastEvent' = [Event("validateMove") EXCEPT
                    !.arg = direction, !.reason = result.reason,
                    !.valid = result.valid,
                    !.n = Cardinality(timers \ w1.timers),
                    !.win = (out.game.wins # game.wins),
                    !.at = game.pathIndex]
             /\ UNCHANGED streak

\* handleMove(direction)
HandleMove(direction) ==
    IF ~game.isPlaying \/ ~game.canMove
    THEN /\ lastEvent' = [Event("handleMoveIgnored") EXCEPT !.arg = direction]
         /\ UNCHANGED <<santa, game, timers, turn, streak>>
    ELSE LET result == validateResult(santa, direction)
             w1 == validateMove(World(santa, timers))
             g1 == [game EXCEPT !.canMove = FALSE]
             out == IF result.valid THEN handleCorrectMove(g1, w1)
                    ELSE triggerTrap(g1, w1, result.reason)
         IN  /\ santa' = out.world.santa
             /\ timers' = out.world.timers
             /\ game' = out.game
             /\ turn' = [turn EXCEPT
                    !.phase = IF @ \in {"Issued", "Urgent"} THEN "Resolved" ELSE @,
                    !.age = 0,
                    !.validations = Min(@ + 1, CountCap),
                    !.moves = Min(@ + 1, CountCap)]
             /\ lastEvent' = [Event("validateMove") EXCEPT
                    !.arg = direction, !.reason = result.reason,
                    !.valid = result.valid,
                    !.n = Cardinality(timers \ w1.timers),
                    !.win = (out.game.wins # game.wins),
                    !.at = game.pathIndex]
             /\ UNCHANGED streak

\* handleKeydown: the key map yields forward, left or right
HandleKeydown == \E d \in KeyDirections : HandleMove(d)

\* click on a compass button
CompassClick == \E d \in CompassDirections : HandleMove(d)

\* Faulty variant: the escalation also withdraws the authorization, as the
\* display branch for unauthorized commands would suggest
urgentState_DropsAuthorization(s, id) ==
    [s EXCEPT !.isUrgent = TRUE, !.urgencyTimeout = id, !.isSantaSays = FALSE]

\* The controller after the first-stage callback: urgent, holding the
\* handle of the second-stage timer
urgentState(s, id) == [s EXCEPT !.isUrgent = TRUE, !.urgencyTimeout = id]

\* First-stage callback of setupUrgencyEscalation
UrgencyFire ==
    \E t \in Due({"urgency"}) :
        LET ts == timers \ {t}
            id == NewId(ts, santa.urgencyTimeout)
            next == [Timer(id, "timeout", urgencyDelay) EXCEPT
                        !.old = t.old, !.orphan = t.orphan]
        IN  /\ timers' = ts \cup {next}
            /\ santa' = IF t.orphan THEN santa
                         ELSE urgentState(santa, id)
            /\ turn' = IF t.orphan \/ t.old THEN turn
                        ELSE [turn EXCEPT !.phase = "Urgent"]
            /\ lastEvent' = [Event("urgent") EXCEPT
                    !.stale = (t.old \/ t.orphan), !.n = turn.age]
            /\ UNCHANGED <<game, streak>>

\* The onTimeout callbacks: 'timeout' (second stage of an authorized
\* command) and 'patience' (unauthorized command), delivered to
\* Game.handleTimeout
TimeoutFire ==
    \E t \in Due({"timeout", "patience"}) :
        LET reason == IF t.kind = "patience" THEN "patience" ELSE "timeout"
            out == handleTimeout(game, World(santa, timers \ {t}), reason)
        IN  /\ santa' = out.world.santa
            /\ timers' = out.world.timers
            /\ game' = out.game
            /\ turn' = [turn EXCEPT
                    !.phase = IF t.orphan \/ t.old THEN @ ELSE "Expired",
                    !.age = IF t.orphan \/ t.old THEN @ ELSE 0,
                    !.timeouts = Min(@ + 1, CountCap)]
            /\ lastEvent' = [Event("onTimeout") EXCEPT
                    !.reason = reason, !.stale = (t.old \/ t.orphan),
                    !.valid = game.isPlaying, !.n = turn.age,
                    !.win = (out.game.wins # game.wins),
                    !.at = game.pathIndex]
            /\ UNCHANGED streak

\* animateWalk's callback
WalkFire ==
    \E t \in Due({"walk"}) :
        /\ timers' = timers \ {t}
        /\ game' = advancePlayer(game)
        /\ lastEvent' = [Event("advancePlayer") EXCEPT !.at = game.pathIndex]
        /\ UNCHANGED <<santa, turn, streak>>

\* the callback triggerTrap schedules
TrapFire ==
    \E t \in Due({"trap"}) :
        LET w == World(santa, timers \ {t})
            out == IF game.hardMode THEN resetToStart(game, w)
                   ELSE resumeFromCurrentPosition(game, w)
        IN  /\ santa' = out.world.santa
            /\ timers' = MarkOld(out.world.timers)
            /\ game' = out.game
            /\ turn' = [turn EXCEPT !.phase = "None", !.age = 0]
            /\ lastEvent' = Event(IF game.hardMode THEN "resetToStart"
                                   ELSE "resumeFromCurrentPosition")
            /\ UNCHANGED streak

\* the callback handleWin schedules: the win screen replaces the game screen
WinFire ==
    \E t \in Due({"win"}) :
        /\ timers' = timers \ {t}
        /\ game' = [game EXCEPT !.screen = "win"]
        /\ lastEvent' = Event("winScreen")
        /\ UNCHANGED <<santa, turn, streak>>

\* the play-again button lives on the win screen
RestartGame ==
    /\ game.screen = "win"
    /\ game' = [game EXCEPT !.screen = "start"]
    /\ lastEvent' = Event("restartGame")
    /\ UNCHANGED <<santa, timers, turn, streak>>

\* 100 ms pass; a due timer fires before the clock moves on
Tick ==
    /\ timers # {}
    /\ \A t \in timers : t.rem > 0
    /\ timers' = {[t EXCEPT !.rem = @ - 1] : t \in timers}
    /\ turn' = [turn EXCEPT
            !.age = IF turn.phase \in {"Issued", "Urgent"} THEN Min(@ + 1, AgeCap) ELSE @]
    /\ lastEvent' = Event("tick")
    /\ UNCHANGED <<santa, game, streak>>

Next ==
    \/ StartGame
    \/ GiveNextCommand
    \/ HandleKeydown
    \/ CompassClick
    \/ UrgencyFire
    \/ TimeoutFire
    \/ WalkFire
    \/ TrapFire
    \/ WinFire
    \/ RestartGame
    \/ Tick

Spec == Init /\ [][Next]_vars

\* Timer callbacks run without the player; the clock and the callbacks are
\* the only steps the browser guarantees
TimerFire ==
    \/ GiveNextCommand
    \/ UrgencyFire
    \/ TimeoutFire
    \/ WalkFire
    \/ TrapFire
    \/ WinFire

\* The event loop at work: time passes, and a due callback runs
Advance == Tick \/ TimerFire

\* Init with the streak observation switched off
InitFair ==
    /\ santa = NewSanta(FALSE, FALSE)
    /\ game = [variant |-> "maze",
               screen |-> "start",
               isPlaying |-> FALSE,
               canMove |-> FALSE,
               hardMode |-> FALSE,
               pathIndex |-> 0,
               player |-> [x |-> 3, y |-> 3, angle |-> "East"],
               trapReason |-> Null,
               wins |-> 0,
               timerInterval |-> FALSE]
    /\ timers = {}
    /\ turn = NoTurn
    /\ streak = -1
    /\ lastEvent = NoEvent

\* The event loop never stops while a timer is pending; nothing is assumed
\* of the player
FairSpec == InitFair /\ [][Next]_vars /\ WF_vars(Advance)

\* =====================================================================
\* The maze build under a player who follows the rules: every authorized
\* command is answered with the commanded direction before it expires, and
\* nothing is pressed otherwise
\* =====================================================================
InitPerfect ==
    /\ santa = NewSanta(FALSE, FALSE)
    /\ game = [variant |-> "maze",
               screen |-> "start",
               isPlaying |-> FALSE,
               canMove |-> FALSE,
               hardMode |-> FALSE,
               pathIndex |-> 0,
               player |-> [x |-> 3, y |-> 3, angle |-> "East"],
               trapReason |-> Null,
               wins |-> 0,
               timerInterval |-> FALSE]
    /\ timers = {}
    /\ turn = [NoTurn EXCEPT !.issued = 0]
    /\ streak = 0
    /\ lastEvent = NoEvent

\* an authorized command is pending and unanswered
Authorized ==
    /\ game.isPlaying
    /\ game.canMove
    /\ SantaTimers # {}
    /\ santa.isSantaSays
    /\ ~santa.isSimonSays

PerfectMove == Authorized /\ HandleMove(santa.currentDirection)

\* the player does not let an authorized command run out
TickPerfect ==
    /\ ~(Authorized /\ \E t \in SantaTimers : t.kind = "timeout" /\ t.rem = 1)
    /\ Tick

NextPerfect ==
    \/ StartGame
    \/ GiveNextCommand
    \/ PerfectMove
    \/ UrgencyFire
    \/ TimeoutFire
    \/ WalkFire
    \/ WinFire
    \/ RestartGame
    \/ TickPerfect

SpecPerfect == InitPerfect /\ [][NextPerfect]_vars

\* the game in progress: the event loop at work and the player's answers
AdvancePerfect ==
    \/ GiveNextCommand
    \/ PerfectMove
    \/ UrgencyFire
    \/ TimeoutFire
    \/ WalkFire
    \/ WinFire
    \/ TickPerfect

\* the event loop never stops while a timer is pending, and the player
\* answers at the latest when time can no longer pass
FairPerfect == SpecPerfect /\ WF_vars(AdvancePerfect)

\* =====================================================================
\* The countdown variant of the Game (js/game.js)
\* =====================================================================
movesToWin == 8

COUNTDOWN_PATH ==
    << WP(1, 1, "East", "start", "forward", <<"forward">>),
       WP(8, 1, "South", "corridor", "forward", <<"forward">>),
       WP(8, 3, "South", "t-junction", "right", <<"left", "right">>),
       WP(3, 3, "South", "corridor", "forward", <<"forward">>),
       WP(3, 6, "South", "t-junction", "left", <<"left", "right">>),
       WP(11, 6, "South", "corridor", "forward", <<"forward">>),
       WP(11, 9, "South", "t-junction", "right", <<"left", "right">>),
       WP(3, 9, "South", "corridor", "forward", <<"forward">>),
       WP(3, 11, "South", "end", Null, << >>) >>

CountdownLength == Len(COUNTDOWN_PATH)

CountdownWaypointAt(i) == COUNTDOWN_PATH[i + 1]

InitCountdown ==
    /\ santa = NewSanta(FALSE, FALSE)
    /\ game = [variant |-> "countdown",
               screen |-> "start",
               isPlaying |-> FALSE,
               canMove |-> FALSE,
               hardMode |-> FALSE,
               pathIndex |-> 0,
               player |-> [x |-> 3, y |-> 3, angle |-> "East"],
               trapReason |-> Null,
               wins |-> 0,
               timerInterval |-> FALSE,
               correctMoves |-> 0]
    /\ timers = {}
    /\ turn = NoTurn
    /\ streak = 0
    /\ lastEvent = NoEvent

\* startGame: a new controller (constructed without hard mode), the maze
\* reloaded, the counters reset, the first command one second away
startGameCountdown(g, w) ==
    Outcome([g EXCEPT !.player = PoseOf(CountdownWaypointAt(0)),
                      !.correctMoves = 0,
                      !.pathIndex = 0,
                      !.isPlaying = TRUE,
                      !.canMove = TRUE,
                      !.screen = "game",
                      !.trapReason = Null,
                      !.timerInterval = TRUE,
                      !.wins = 0],
            World(NewSanta(FALSE, TRUE),
                  MarkOrphan(w.timers)
                      \cup {Timer(NewId(w.timers, 0), "startDelay", startDelay)}))

\* Faulty variant: the win is declared one correct move early
handleCorrectMoveCountdown_OneEarly(g, w) ==
    LET g1 == [g EXCEPT !.correctMoves = @ + 1]
        w1 == AddTimer(w, "walk", walkDelay)
    IN  IF g1.correctMoves >= movesToWin - 1
        THEN handleWin(g1, w1)
        ELSE Outcome(g1, AddTimer(w1, "holdDelay", holdDelay))

handleCorrectMoveCountdown(g, w) ==
    LET g1 == [g EXCEPT !.correctMoves = @ + 1]
        w1 == AddTimer(w, "walk", walkDelay)
    IN  IF g1.correctMoves >= movesToWin
        THEN handleWin(g1, w1)
        ELSE Outcome(g1, AddTimer(w1, "holdDelay", holdDelay))

handleTimeoutCountdown(g, w, reason) ==
    IF ~g.isPlaying THEN Outcome(g, w)
    ELSE IF reason = "patience"
         THEN LET g1 == [g EXCEPT !.correctMoves = @ + 1]
              IN  IF g1.correctMoves >= movesToWin
                  THEN handleWin(g1, w)
                  ELSE Outcome(g1, AddTimer(w, "holdDelay", holdDelay))
         ELSE triggerTrap(g, w, "timeout")

resetToStartCountdown(g, w) ==
    Outcome([g EXCEPT !.correctMoves = 0, !.pathIndex = 0, !.isPlaying = TRUE,
                      !.timerInterval = TRUE,
                      !.player = PoseOf(CountdownWaypointAt(0)),
                      !.trapReason = Null],
            AddTimer(reset(w), "resumeDelay", resumeDelay))

advancePlayerCountdown(g) ==
    LET i == g.pathIndex + 1
    IN  IF i < CountdownLength
        THEN [g EXCEPT !.pathIndex = i, !.player = PoseOf(CountdownWaypointAt(i))]
        ELSE [g EXCEPT !.pathIndex = i]

StartGameCountdown ==
    /\ game.screen = "start"
    /\ LET out == startGameCountdown(game, World(santa, timers))
       IN  /\ santa' = out.world.santa
           /\ timers' = out.world.timers
           /\ game' = out.game
    /\ turn' = [NoTurn EXCEPT !.moves = turn.moves]
    /\ streak' = Observed(0)
    /\ lastEvent' = Event("startGame")

GiveNextCommandCountdown ==
    \E t \in Due(GiveNextKinds) :
        LET ts == timers \ {t}
            wp == IF game.pathIndex < CountdownLength
                  THEN CountdownWaypointAt(game.pathIndex)
                  ELSE [correctMove |-> Null]
        IN  IF ~game.isPlaying \/ wp.correctMove = Null
            THEN /\ timers' = ts
                 /\ lastEvent' = [Event("giveNextCommand") EXCEPT
                        !.reason = IF ~game.isPlaying THEN "not_playing" ELSE "no_move"]
                 /\ UNCHANGED <<santa, game, turn, streak>>
            ELSE \E rnd \in Draws :
                 LET w2 == generateCommand(World(santa, ts), wp.correctMove, rnd)
                     new == {x \in w2.timers : x.id = w2.santa.urgencyTimeout}
                 IN  /\ santa' = w2.santa
                     /\ timers' = MarkOld(w2.timers \ new) \cup new
                     /\ game' = [game EXCEPT !.canMove = TRUE]
                     /\ turn' = [NoTurn EXCEPT !.phase = "Issued",
                                               !.at = game.pathIndex]
                     /\ streak' = Observed(IF w2.santa.isSantaSays THEN 0
                                            ELSE Min(streak + 1, StreakCap))
                     /\ lastEvent' = [Event("generateCommand") EXCEPT
                            !.arg = wp.correctMove,
                            !.dir = w2.santa.currentDirection,
                            !.draw = rnd.santaSays,
                            !.n = santa.consecutiveTricks,
                            !.reason = t.kind,
                            !.at = game.pathIndex,
                            !.count = game.correctMoves,
                            !.prev = turn.at]

HandleMoveCountdown(direction) ==
    IF ~game.isPlaying \/ ~game.canMove
    THEN /\ lastEvent' = [Event("handleMoveIgnored") EXCEPT !.arg = direction]
         /\ UNCHANGED <<santa, game, timers, turn, streak>>
    ELSE LET result == validateResult(santa, direction)
             w1 == validateMove(World(santa, timers))
             g1 == [game EXCEPT !.canMove = FALSE]
             out == IF result.valid THEN handleCorrectMoveCountdown(g1, w1)
                    ELSE triggerTrap(g1, w1, result.reason)
         IN  /\ santa' = out.world.santa
             /\ timers' = out.world.timers
             /\ game' = out.game
             /\ turn' = [turn EXCEPT
                    !.phase = IF @ \in {"Issued", "Urgent"} THEN "Resolved" ELSE @,
                    !.age = 0,
                    !.validations = Min(@ + 1, CountCap),
                    !.moves = Min(@ + 1, CountCap)]
             /\ lastEvent' = [Event("validateMove") EXCEPT
                    !.arg = direction, !.reason = result.reason,
                    !.valid = result.valid,
                    !.n = Cardinality(timers \ w1.timers),
                    !.win = (out.game.wins # game.wins),
                    !.at = game.pathIndex,
                    !.count = game.correctMoves]
             /\ UNCHANGED streak

HandleKeydownCountdown == \E d \in KeyDirections : HandleMoveCountdown(d)

CompassClickCountdown == \E d \in CompassDirections : HandleMoveCountdown(d)

TimeoutFireCountdown ==
    \E t \in Due({"timeout", "patience"}) :
        LET reason == IF t.kind = "patience" THEN "patience" ELSE "timeout"
            out == handleTimeoutCountdown(game, World(santa, timers \ {t}), reason)
        IN  /\ santa' = out.world.santa
            /\ timers' = out.world.timers
            /\ game' = out.game
            /\ turn' = [turn EXCEPT
                    !.phase = IF t.orphan \/ t.old THEN @ ELSE "Expired",
                    !.age = IF t.orphan \/ t.old THEN @ ELSE 0,
                    !.timeouts = Min(@ + 1, CountCap)]
            /\ lastEvent' = [Event("onTimeout") EXCEPT
                    !.reason = reason, !.stale = (t.old \/ t.orphan),
                    !.valid = game.isPlaying, !.n = turn.age,
                    !.win = (out.game.wins # game.wins),
                    !.at = game.pathIndex,
                    !.count = game.correctMoves]
            /\ UNCHANGED streak

WalkFireCountdown ==
    \E t \in Due({"walk"}) :
        /\ timers' = timers \ {t}
        /\ game' = advancePlayerCountdown(game)
        /\ lastEvent' = [Event("advancePlayer") EXCEPT !.at = game.pathIndex]
        /\ UNCHANGED <<santa, turn, streak>>

\* the callback triggerTrap schedules: always resetToStart
TrapFireCountdown ==
    \E t \in Due({"trap"}) :
        LET out == resetToStartCountdown(game, World(santa, timers \ {t}))
        IN  /\ santa' = out.world.santa
            /\ timers' = MarkOld(out.world.timers)
            /\ game' = out.game
            /\ turn' = [turn EXCEPT !.phase = "None", !.age = 0]
            /\ lastEvent' = Event("resetToStart")
            /\ UNCHANGED streak

\* restartGame: from the win screen straight into a new game
RestartGameCountdown ==
    /\ game.screen = "win"
    /\ LET out == startGameCountdown(game, World(santa, timers))
       IN  /\ santa' = out.world.santa
           /\ timers' = out.world.timers
           /\ game' = out.game
    /\ turn' = [NoTurn EXCEPT !.moves = turn.moves]
    /\ streak' = Observed(0)
    /\ lastEvent' = Event("restartGame")

\* handleTimeUp: the countdown reaches 0 while it runs (it runs exactly
\* while isPlaying).  The 60 s count itself is not kept here: the callback
\* may come at any instant after the first command of the run, which is
\* issued 1 s after the countdown is (re)started.
HandleTimeUp ==
    /\ game.isPlaying
    /\ santa.currentDirection # Null
    /\ LET out == triggerTrap(game, World(santa, timers), "time")
       IN  /\ santa' = out.world.santa
           /\ timers' = out.world.timers
           /\ game' = out.game
    /\ turn' = [turn EXCEPT !.phase = "None", !.age = 0]
    /\ lastEvent' = [Event("handleTimeUp") EXCEPT
            !.at = game.pathIndex, !.count = game.correctMoves,
            !.n = Cardinality(SantaTimers)]
    /\ UNCHANGED streak

NextCountdown ==
    \/ StartGameCountdown
    \/ GiveNextCommandCountdown
    \/ HandleKeydownCountdown
    \/ CompassClickCountdown
    \/ UrgencyFire
    \/ TimeoutFireCountdown
    \/ WalkFireCountdown
    \/ TrapFireCountdown
    \/ WinFire
    \/ RestartGameCountdown
    \/ HandleTimeUp
    \/ Tick

SpecCountdown == InitCountdown /\ [][NextCountdown]_vars

\* The two builds of the Game side by side
InitBoth == Init \/ InitCountdown

NextBoth ==
    \/ game.variant = "maze" /\ Next
    \/ game.variant = "countdown" /\ NextCountdown

SpecBoth == InitBoth /\ [][NextBoth]_vars

\* =====================================================================
\* The 60 s countdown of js/game.js.  The Game's own fields and timers
\* (timeRemaining, the setInterval handle, the trap, walk and command
\* delays) are kept exactly; the SantaController is not: while a command
\* can be pending, any of its outcomes (a validated move, a rejected move,
\* a patience success, a timeout) may come at any instant.
\* =====================================================================
totalTime == 60

tickPeriod == 10

\* Faulty variant: the interval is never cleared
stopTimer_LeavesInterval(w) == w

\* clearInterval(this.timerInterval): the handle is the pending callback
stopTimer(w) == World(w.santa, {t \in w.timers : t.kind # "interval"})

startTimer(w) == AddTimer(stopTimer(w), "interval", tickPeriod)

triggerTrapClock(g, w, reason) == triggerTrap(g, stopTimer(w), reason)

handleWinClock(g, w) == handleWin(g, stopTimer(w))

handleTimeUp(g, w) == triggerTrapClock(g, stopTimer(w), "time")

\* the setInterval callback of startTimer
countdownTick(g, w) ==
    LET g1 == [g EXCEPT !.timeRemaining = @ - 1]
    IN  IF g1.timeRemaining <= 0 THEN handleTimeUp(g1, w) ELSE Outcome(g1, w)

startGameClock(g, w) ==
    LET out == startGameCountdown(g, w)
    IN  Outcome([out.game EXCEPT !.timeRemaining = totalTime], startTimer(out.world))

resetToStartClock(g, w) ==
    LET out == resetToStartCountdown(g, w)
    IN  Outcome([out.game EXCEPT !.timeRemaining = totalTime], startTimer(out.world))

handleCorrectMoveClock(g, w) ==
    LET g1 == [g EXCEPT !.correctMoves = @ + 1]
        w1 == AddTimer(w, "walk", walkDelay)
    IN  IF g1.correctMoves >= movesToWin
        THEN handleWinClock(g1, w1)
        ELSE Outcome(g1, AddTimer(w1, "holdDelay", holdDelay))

handleTimeoutClock(g, w, reason) ==
    IF ~g.isPlaying THEN Outcome(g, w)
    ELSE IF reason = "patience"
         THEN LET g1 == [g EXCEPT !.correctMoves = @ + 1]
              IN  IF g1.correctMoves >= movesToWin
                  THEN handleWinClock(g1, w)
                  ELSE Outcome(g1, AddTimer(w, "holdDelay", holdDelay))
         ELSE triggerTrapClock(g, w, "timeout")

IntervalTimers == {t \in timers : t.kind = "interval"}

TrapTimers == {t \in timers : t.kind = "trap"}

\* a command can be pending: one was issued (canMove was set) and the next
\* request is not yet scheduled
CommandPossible ==
    /\ game.isPlaying
    /\ game.canMove
    /\ \A t \in timers : t.kind \notin GiveNextKinds

InitClock ==
    /\ santa = NewSanta(FALSE, FALSE)
    /\ game = [variant |-> "countdown",
               screen |-> "start",
               isPlaying |-> FALSE,
               canMove |-> FALSE,
               hardMode |-> FALSE,
               pathIndex |-> 0,
               player |-> [x |-> 3, y |-> 3, angle |-> "East"],
               trapReason |-> Null,
               wins |-> 0,
               timerInterval |-> FALSE,
               correctMoves |-> 0,
               timeRemaining |-> totalTime]
    /\ timers = {}
    /\ turn = NoTurn
    /\ streak = 0
    /\ lastEvent = NoEvent

StartGameClock ==
    /\ game.screen = "start"
    /\ LET out == startGameClock(game, World(santa, timers))
       IN  /\ santa' = out.world.santa
           /\ timers' = out.world.timers
           /\ game' = out.game
    /\ lastEvent' = Event("startGame")
    /\ UNCHANGED <<turn, streak>>

RestartGameClock ==
    /\ game.screen = "win"
    /\ LET out == startGameClock(game, World(santa, timers))
       IN  /\ santa' = out.world.santa
           /\ timers' = out.world.timers
           /\ game' = out.game
    /\ lastEvent' = Event("restartGame")
    /\ UNCHANGED <<turn, streak>>

\* the interval fires and stays armed unless its callback clears it
IntervalFire ==
    \E t \in Due({"interval"}) :
        LET rearmed == (timers \ {t}) \cup {[t EXCEPT !.rem = tickPeriod]}
            out == countdownTick(game, World(santa, rearmed))
        IN  /\ santa' = out.world.santa
            /\ timers' = out.world.timers
            /\ game' = out.game
            /\ lastEvent' = [Event("countdownTick") EXCEPT
                    !.valid = game.isPlaying,
                    !.count = game.timeRemaining,
                    !.at = game.pathIndex,
                    !.n = Cardinality({x \in out.world.timers : x.kind = "trap"})]
            /\ UNCHANGED <<turn, streak>>

\* giveNextCommand, as far as the Game's fields go
GiveNextCommandClock ==
    \E t \in Due(GiveNextKinds) :
        LET wp == IF game.pathIndex < CountdownLength
                  THEN CountdownWaypointAt(game.pathIndex)
                  ELSE [correctMove |-> Null]
        IN  /\ timers' = timers \ {t}
            /\ game' = IF ~game.isPlaying \/ wp.correctMove = Null
                       THEN game
                       ELSE [game EXCEPT !.canMove = TRUE]
            /\ lastEvent' = Event("giveNextCommand")
            /\ UNCHANGED <<santa, turn, streak>>

\* handleMove with either verdict of validateMove
HandleMoveClock ==
    /\ game.isPlaying
    /\ game.canMove
    /\ \E verdict \in {"correct", "didnt_say", "wrong_direction"} :
        LET g1 == [game EXCEPT !.canMove = FALSE]
            out == IF verdict = "correct"
                   THEN handleCorrectMoveClock(g1, World(santa, timers))
                   ELSE triggerTrapClock(g1, World(santa, timers), verdict)
        IN  /\ santa' = out.world.santa
            /\ timers' = out.world.timers
            /\ game' = out.game
            /\ lastEvent' = [Event("validateMove") EXCEPT
                    !.reason = verdict, !.valid = (verdict = "correct"),
                    !.count = game.timeRemaining]
    /\ UNCHANGED <<turn, streak>>

\* the controller's expiry callback, with either reason
HandleTimeoutClock ==
    /\ CommandPossible
    /\ \E reason \in {"patience", "timeout"} :
        LET out == handleTimeoutClock(game, World(santa, timers), reason)
        IN  /\ santa' = out.world.santa
            /\ timers' = out.world.timers
            /\ game' = out.game
            /\ lastEvent' = [Event("onTimeout") EXCEPT
                    !.reason = reason, !.count = game.timeRemaining]
    /\ UNCHANGED <<turn, streak>>

TrapFireClock ==
    \E t \in Due({"trap"}) :
        LET out == resetToStartClock(game, World(santa, timers \ {t}))
        IN  /\ santa' = out.world.santa
            /\ timers' = out.world.timers
            /\ game' = out.game
            /\ lastEvent' = [Event("resetToStart") EXCEPT
                    !.reason = game.trapReason,
                    !.count = game.timeRemaining,
                    !.at = game.pathIndex]
            /\ UNCHANGED <<turn, streak>>

\* time runs on to the next pending callback; the player and the
\* controller act at those instants
Elapse ==
    /\ timers # {}
    /\ \A t \in timers : t.rem > 0
    /\ LET d == CHOOSE r \in {t.rem : t \in timers} : \A t \in timers : r <= t.rem
       IN  timers' = {[t EXCEPT !.rem = @ - d] : t \in timers}
    /\ lastEvent' = Event("tick")
    /\ UNCHANGED <<santa, game, turn, streak>>

NextClock ==
    \/ StartGameClock
    \/ GiveNextCommandClock
    \/ HandleMoveClock
    \/ HandleTimeoutClock
    \/ IntervalFire
    \/ WalkFireCountdown
    \/ TrapFireClock
    \/ WinFire
    \/ RestartGameClock
    \/ Elapse

SpecClock == InitClock /\ [][NextClock]_vars

\* =====================================================================
\* The elapsed-time timer of the maze build (part_004): timeElapsed counts
\* up once a second while the interval is live, a trap adds a penalty.
\* The Game's fields and timers are exact; the controller's judgments and
\* expiries are any of their possible outcomes
\* =====================================================================
trapPenalty == 10

elapsedPeriod == 10

\* largest timeElapsed followed
ElapsedCap == 28

\* startTimer: stopTimer is the same code in both builds
startElapsedTimer(w) == AddTimer(stopTimer(w), "interval", elapsedPeriod)

\* the setInterval callback of startTimer
elapsedTick(g) == [g EXCEPT !.timeElapsed = @ + 1]

\* triggerTrap: the timer stops and the penalty is added
triggerTrapElapsed(g, w, reason) ==
    LET out == triggerTrap(g, stopTimer(w), reason)
    IN  Outcome([out.game EXCEPT !.timeElapsed = @ + trapPenalty], out.world)

handleWinElapsed(g, w) == handleWin(g, stopTimer(w))

handleCorrectMoveElapsed(g, w) ==
    LET w1 == AddTimer(w, "walk", walkDelay)
    IN  IF reachesEnd(g)
        THEN handleWinElapsed(g, w1)
        ELSE Outcome(g, AddTimer(w1, "holdDelay", holdDelay))

handleTimeoutElapsed(g, w, reason) ==
    IF ~g.isPlaying THEN Outcome(g, w)
    ELSE IF reason = "patience"
         THEN Outcome(g, AddTimer(w, "holdDelay", holdDelay))
         ELSE triggerTrapElapsed(g, w, "timeout")

\* Faulty variant: the recovery starts the clock again from zero
recoverElapsed_ResetsTime(g, w) ==
    LET out == IF g.hardMode THEN resetToStart(g, w)
               ELSE resumeFromCurrentPosition(g, w)
    IN  Outcome([out.game EXCEPT !.timeElapsed = 0], startElapsedTimer(out.world))

\* the callback triggerTrap schedules: resetToStart in hard mode,
\* resumeFromCurrentPosition otherwise; both restart the timer
recoverElapsed(g, w) ==
    LET out == IF g.hardMode THEN resetToStart(g, w)
               ELSE resumeFromCurrentPosition(g, w)
    IN  Outcome(out.game, startElapsedTimer(out.world))

InitElapsed ==
    /\ santa = NewSanta(FALSE, FALSE)
    /\ game = [variant |-> "maze",
               screen |-> "start",
               isPlaying |-> FALSE,
               canMove |-> FALSE,
               hardMode |-> FALSE,
               pathIndex |-> 0,
               player |-> [x |-> 3, y |-> 3, angle |-> "East"],
               trapReason |-> Null,
               wins |-> 0,
               timerInterval |-> FALSE,
               timeElapsed |-> 0]
    /\ timers = {}
    /\ turn = NoTurn
    /\ streak = 0
    /\ lastEvent = NoEvent

StartGameElapsed ==
    /\ game.screen = "start"
    /\ \E hardModeToggle \in BOOLEAN :
        LET w == startElapsedTimer(World(NewSanta(hardModeToggle, TRUE), timers))
        IN  /\ santa' = w.santa
            /\ timers' = AddTimer(w, "startDelay", startDelay).timers
            /\ game' = [game EXCEPT !.hardMode = hardModeToggle,
                                    !.player = PoseOf(WaypointAt(0)),
                                    !.pathIndex = 0,
                                    !.timeElapsed = 0,
                                    !.isPlaying = TRUE,
                                    !.canMove = TRUE,
                                    !.screen = "game",
                                    !.trapReason = Null,
                                    !.timerInterval = TRUE,
                                    !.wins = 0]
    /\ lastEvent' = Event("startGame")
    /\ UNCHANGED <<turn, streak>>

\* the interval fires and stays armed
ElapsedIntervalFire ==
    /\ game.timeElapsed < ElapsedCap
    /\ \E t \in Due({"interval"}) :
        /\ timers' = (timers \ {t}) \cup {[t EXCEPT !.rem = elapsedPeriod]}
        /\ game' = elapsedTick(game)
        /\ lastEvent' = [Event("elapsedTick") EXCEPT !.valid = game.isPlaying]
        /\ UNCHANGED <<santa, turn, streak>>

\* giveNextCommand, as far as the Game's fields go
GiveNextCommandElapsed ==
    \E t \in Due(GiveNextKinds) :
        LET wp == IF game.pathIndex < PathLength THEN WaypointAt(game.pathIndex)
                  ELSE [correctMove |-> Null]
        IN  /\ timers' = timers \ {t}
            /\ game' = IF ~game.isPlaying \/ wp.correctMove = Null
                       THEN game
                       ELSE [game EXCEPT !.canMove = TRUE]
            /\ lastEvent' = Event("giveNextCommand")
            /\ UNCHANGED <<santa, turn, streak>>

\* handleMove with any verdict of validateMove
HandleMoveElapsed ==
    /\ game.isPlaying
    /\ game.canMove
    /\ \E verdict \in {"correct", "didnt_say", "simon_says", "wrong_direction"} :
        /\ verdict # "correct" => game.timeElapsed + trapPenalty <= ElapsedCap
        /\ verdict = "simon_says" => game.hardMode
        /\ LET g1 == [game EXCEPT !.canMove = FALSE]
               out == IF verdict = "correct"
                      THEN handleCorrectMoveElapsed(g1, World(santa, timers))
                      ELSE triggerTrapElapsed(g1, World(santa, timers), verdict)
           IN  /\ santa' = out.world.santa
               /\ timers' = out.world.timers
               /\ game' = out.game
               /\ lastEvent' = [Event("validateMove") EXCEPT
                       !.reason = verdict, !.valid = (verdict = "correct"),
                       !.win = (out.game.wins # game.wins)]
    /\ UNCHANGED <<turn, streak>>

\* the controller's expiry callback, with either reason
HandleTimeoutElapsed ==
    /\ CommandPossible
    /\ \E reason \in {"patience", "timeout"} :
        /\ reason = "timeout" => game.timeElapsed + trapPenalty <= ElapsedCap
        /\ LET out == handleTimeoutElapsed(game, World(santa, timers), reason)
           IN  /\ santa' = out.world.santa
               /\ timers' = out.world.timers
               /\ game' = out.game
               /\ lastEvent' = [Event("onTimeout") EXCEPT !.reason = reason]
    /\ UNCHANGED <<turn, streak>>

TrapFireElapsed ==
    \E t \in Due({"trap"}) :
        LET out == recoverElapsed(game, World(santa, timers \ {t}))
        IN  /\ santa' = out.world.santa
            /\ timers' = out.world.timers
            /\ game' = out.game
            /\ lastEvent' = [Event(IF game.hardMode THEN "resetToStart"
                                    ELSE "resumeFromCurrentPosition") EXCEPT
                    !.reason = game.trapReason]
            /\ UNCHANGED <<turn, streak>>

NextElapsed ==
    \/ StartGameElapsed
    \/ GiveNextCommandElapsed
    \/ HandleMoveElapsed
    \/ HandleTimeoutElapsed
    \/ ElapsedIntervalFire
    \/ WalkFire
    \/ TrapFireElapsed
    \/ WinFire
    \/ RestartGame
    \/ Elapse

SpecElapsed == InitElapsed /\ [][NextElapsed]_vars

\* =====================================================================
\* The maze grids and the geometry of a move
\* =====================================================================
\* this.maze of the maze build: 22 rows of 20 cells, 1 = wall, 0 = floor;
\* row y, column x (both from 0)
PREDEFINED_MAZE ==
    << <<1, 1, 1, 1, 1, 1, 1, 1, 1, 1, 1, 1, 1, 1, 1, 1, 1, 1, 1, 1>>,
       <<1, 0, 0, 0, 0, 0, 0, 0, 0, 1, 1, 1, 1, 1, 1, 1, 1, 1, 1, 1>>,
       <<1, 1, 1, 1, 1, 1, 1, 1, 0, 1, 1, 1, 1, 1, 1, 1, 1, 1, 1, 1>>,
       <<1, 1, 1, 1, 0, 0, 0, 0, 0, 0, 0, 0, 0, 0, 0, 0, 1, 1, 1, 1>>,
       <<1, 1, 1, 1, 1, 1, 1, 1, 1, 1, 1, 1, 1, 1, 1, 0, 1, 1, 1, 1>>,
       <<1, 1, 0, 0, 0, 0, 0, 0, 0, 0, 0, 0, 0, 0, 0, 0, 1, 1, 1, 1>>,
       <<1, 1, 0, 1, 1, 1, 1, 1, 1, 1, 1, 1, 1, 1, 1, 1, 1, 1, 1, 1>>,
       <<1, 1, 0, 0, 0, 0, 0, 0, 0, 0, 0, 0, 0, 0, 0, 0, 0, 1, 1, 1>>,
       <<1, 1, 1, 1, 1, 1, 1, 1, 1, 1, 1, 1, 1, 1, 1, 1, 0, 1, 1, 1>>,
       <<1, 1, 1, 1, 1, 0, 0, 0, 0, 0, 0, 0, 0, 0, 0, 0, 0, 1, 1, 1>>,
       <<1, 1, 1, 1, 1, 0, 1, 1, 1, 1, 1, 1, 1, 1, 1, 1, 1, 1, 1, 1>>,
       <<1, 1, 1, 1, 1, 0, 0, 0, 0, 0, 0, 0, 0, 0, 1, 1, 1, 1, 1, 1>>,
       <<1, 1, 1, 1, 1, 1, 1, 1, 1, 1, 1, 1, 1, 0, 1, 1, 1, 1, 1, 1>>,
       <<1, 1, 1, 1, 1, 1, 1, 1, 1, 1, 1, 1, 1, 0, 1, 1, 1, 1, 1, 1>>,
       <<1, 1, 1, 1, 1, 1, 1, 1, 1, 1, 1, 1, 1, 0, 1, 1, 1, 1, 1, 1>>,
       <<1, 1, 1, 0, 0, 0, 0, 0, 0, 0, 0, 0, 0, 0, 1, 1, 1, 1, 1, 1>>,
       <<1, 1, 1, 0, 1, 1, 1, 1, 1, 1, 1, 1, 1, 1, 1, 1, 1, 1, 1, 1>>,
       <<1, 1, 1, 0, 1, 1, 1, 1, 1, 1, 1, 1, 1, 1, 1, 1, 1, 1, 1, 1>>,
       <<1, 1, 1, 0, 1, 1, 1, 1, 1, 1, 1, 1, 1, 1, 1, 1, 1, 1, 1, 1>>,
       <<1, 1, 1, 0, 1, 1, 1, 1, 1, 1, 1, 1, 1, 1, 1, 1, 1, 1, 1, 1>>,
       <<1, 1, 1, 1, 1, 1, 1, 1, 1, 1, 1, 1, 1, 1, 1, 1, 1, 1, 1, 1>>,
       <<1, 1, 1, 1, 1, 1, 1, 1, 1, 1, 1, 1, 1, 1, 1, 1, 1, 1, 1, 1>> >>

\* PREDEFINED_MAZE of js/game.js: 15 rows of 15 cells
COUNTDOWN_MAZE ==
    << <<1, 1, 1, 1, 1, 1, 1, 1, 1, 1, 1, 1, 1, 1, 1>>,
       <<1, 0, 0, 0, 0, 0, 0, 0, 0, 1, 1, 1, 1, 1, 1>>,
       <<1, 1, 1, 1, 1, 1, 1, 1, 0, 1, 1, 1, 1, 1, 1>>,
       <<1, 1, 1, 0, 0, 0, 0, 0, 0, 0, 0, 0, 1, 1, 1>>,
       <<1, 1, 1, 0, 1, 1, 1, 1, 1, 1, 1, 1, 1, 1, 1>>,
       <<1, 1, 1, 0, 1, 1, 1, 1, 1, 1, 1, 1, 1, 1, 1>>,
       <<1, 1, 1, 0, 0, 0, 0, 0, 0, 0, 0, 0, 1, 1, 1>>,
       <<1, 1, 1, 1, 1, 1, 1, 1, 1, 1, 1, 0, 1, 1, 1>>,
       <<1, 1, 1, 1, 1, 1, 1, 1, 1, 1, 1, 0, 1, 1, 1>>,
       <<1, 1, 1, 0, 0, 0, 0, 0, 0, 0, 0, 0, 1, 1, 1>>,
       <<1, 1, 1, 0, 1, 1, 1, 1, 1, 1, 1, 1, 1, 1, 1>>,
       <<1, 1, 1, 0, 1, 1, 1, 1, 1, 1, 1, 1, 1, 1, 1>>,
       <<1, 1, 1, 1, 1, 1, 1, 1, 1, 1, 1, 1, 1, 1, 1>>,
       <<1, 1, 1, 1, 1, 1, 1, 1, 1, 1, 1, 1, 1, 1, 1>>,
       <<1, 1, 1, 1, 1, 1, 1, 1, 1, 1, 1, 1, 1, 1, 1>> >>

\* the table and the grid of the build the game runs
PathOf(g) == IF g.variant = "maze" THEN mazePath ELSE COUNTDOWN_PATH

MazeOf(g) == IF g.variant = "maze" THEN PREDEFINED_MAZE ELSE COUNTDOWN_MAZE

\* maze[y][x], a wall outside the grid
Cell(maze, x, y) ==
    IF y + 1 \in 1..Len(maze) /\ x + 1 \in 1..Len(maze[y + 1])
    THEN maze[y + 1][x + 1]
    ELSE 1

\* unit step of a facing (x to the East, y to the South)
FacingVector(facing) ==
    CASE facing = "East" -> <<1, 0>>
      [] facing = "South" -> <<0, 1>>
      [] facing = "West" -> <<-1, 0>>
      [] facing = "North" -> <<0, -1>>

\* 'right' turns clockwise, 'left' counterclockwise: facing South, right
\* is West and left is East
MoveVector(facing, move) ==
    LET f == FacingVector(facing)
    IN  CASE move = "forward" -> f
          [] move = "right" -> <<-f[2], f[1]>>
          [] move = "left" -> <<f[2], -f[1]>>
          [] move = "backward" -> <<-f[1], -f[2]>>

MovePossible(maze, wp, move) ==
    LET v == MoveVector(wp.facing, move)
    IN  Cell(maze, wp.x + v[1], wp.y + v[2]) = 0

\* the correct move of wp runs over floor cells up to the waypoint next
LeadsAlongFloor(maze, wp, next) ==
    LET v == MoveVector(wp.facing, wp.correctMove)
    IN  \E n \in 1..(Len(maze) + Len(maze[1])) :
            /\ next.x = wp.x + n * v[1]
            /\ next.y = wp.y + n * v[2]
            /\ \A k \in 1..n : Cell(maze, wp.x + k * v[1], wp.y + k * v[2]) = 0

Range(seq) == {seq[k] : k \in 1..Len(seq)}

TableWellFormed(path) ==
    /\ Len(path) >= 2
    /\ path[1].type = "start"
    /\ path[Len(path)].type = "end"
    /\ path[Len(path)].correctMove = Null
    /\ path[Len(path)].availableMoves = << >>
    /\ \A i \in 2..(Len(path) - 1) : path[i].type \in {"corridor", "t-junction"}
    /\ \A i \in 1..(Len(path) - 1) :
           /\ Len(path[i].availableMoves) = IF path[i].type = "t-junction" THEN 2 ELSE 1
           /\ Cardinality(Range(path[i].availableMoves)) = Len(path[i].availableMoves)
    /\ \A i \in 1..Len(path) :
           path[i].availableMoves # << >> =>
               path[i].correctMove \in Range(path[i].availableMoves)

MazeTableWellFormed == TableWellFormed(SOLUTION_PATH)

CountdownTableWellFormed == TableWellFormed(COUNTDOWN_PATH)

\* =====================================================================
\* giveNextCommand taken alone, as a function of the Game state it reads
\* (isPlaying, pathIndex) and of the controller it calls: one call from
\* each such state of the maze build, the End waypoint included
\* =====================================================================
InitGiveNext ==
    /\ \E hardMode \in BOOLEAN, tricks \in 0..maxConsecutiveTricks,
          playing \in BOOLEAN, i \in 0..(PathLength - 1) :
        /\ santa = [NewSanta(hardMode, TRUE) EXCEPT !.consecutiveTricks = tricks]
        /\ game = [variant |-> "maze",
                   screen |-> "game",
                   isPlaying |-> playing,
                   canMove |-> FALSE,
                   hardMode |-> hardMode,
                   pathIndex |-> i,
                   player |-> PoseOf(WaypointAt(i)),
                   trapReason |-> Null,
                   wins |-> 0,
                   timerInterval |-> playing]
    /\ \E kind \in GiveNextKinds : timers = {Timer(1, kind, 0)}
    /\ turn = NoTurn
    /\ streak = 0
    /\ lastEvent = NoEvent

SpecGiveNext == InitGiveNext /\ [][GiveNextCommand]_vars

\* =====================================================================
\* Properties
\* =====================================================================
Pending == turn.phase \in {"Issued", "Urgent"}

\* The controller holds a command: one was generated and not reset since
HasCommand == santa.constructed /\ santa.currentDirection # Null

Judgment(valid, reason) == [valid |-> valid, reason |-> reason]

\* C1: every authorized command generateCommand produces names the
\* correctMove of the active waypoint: generateCommand is called with
\* the current waypoint's correctMove, stores it as correctDirection, and
\* when isSantaSays is true the commanded direction equals it, for as long
\* as the command is pending.
C1_AuthorizedNamesCorrectMove ==
    /\ lastEvent.op = "generateCommand" =>
            /\ lastEvent.arg = WaypointAt(game.pathIndex).correctMove
            /\ santa.correctDirection = lastEvent.arg
            /\ lastEvent.dir = santa.currentDirection
    /\ (Pending /\ santa.isSantaSays) =>
            /\ santa.currentDirection = santa.correctDirection
            /\ santa.currentDirection = WaypointAt(game.pathIndex).correctMove

C1_Witness ==
    /\ lastEvent.op = "generateCommand"
    /\ santa.isSantaSays
    /\ santa.currentDirection = "right"
    /\ WaypointAt(game.pathIndex).type = "t-junction"

\* C2: while the command is unauthorized (isSantaSays false), validateMove
\* judges every player direction invalid, the correct direction included,
\* and a move the Game validates against such a command is invalid.
C2_UnauthorizedAlwaysInvalid ==
    /\ (HasCommand /\ ~santa.isSantaSays) =>
            \A d \in CompassDirections \cup {santa.correctDirection} :
                ~validateResult(santa, d).valid
    /\ (lastEvent.op = "validateMove" /\ ~santa.isSantaSays) => ~lastEvent.valid

C2_Witness ==
    /\ lastEvent.op = "validateMove"
    /\ ~santa.isSantaSays
    /\ ~santa.isSimonSays
    /\ lastEvent.arg = santa.correctDirection
    /\ ~lastEvent.valid

\* C3: while a Simon Says decoy is active, validateMove judges every
\* direction invalid with reason 'simon_says', although the command is
\* also unauthorized and although the direction may be the correct one.
C3_DecoyAlwaysSimonSays ==
    /\ (HasCommand /\ santa.isSimonSays) =>
            \A d \in CompassDirections \cup {santa.correctDirection} :
                validateResult(santa, d) = Judgment(FALSE, "simon_says")
    /\ (lastEvent.op = "validateMove" /\ santa.isSimonSays) =>
            (~lastEvent.valid /\ lastEvent.reason = "simon_says")

C3_Witness ==
    /\ lastEvent.op = "validateMove"
    /\ santa.isSimonSays
    /\ ~santa.isSantaSays
    /\ lastEvent.arg = santa.correctDirection
    /\ lastEvent.reason = "simon_says"

\* C4: for an authorized, non-decoy command validateMove(d) is valid with
\* reason 'correct' exactly when d is correctDirection, and invalid with
\* reason 'wrong_direction' for every other d, 'backward' included.
C4_AuthorizedValidIffCorrect ==
    /\ (HasCommand /\ santa.isSantaSays /\ ~santa.isSimonSays) =>
            \A d \in CompassDirections :
                validateResult(santa, d) =
                    IF d = santa.correctDirection
                    THEN Judgment(TRUE, "correct")
                    ELSE Judgment(FALSE, "wrong_direction")
    /\ (lastEvent.op = "validateMove" /\ santa.isSantaSays /\ ~santa.isSimonSays) =>
            /\ lastEvent.valid <=> (lastEvent.arg = santa.correctDirection)
            /\ lastEvent.reason = IF lastEvent.valid THEN "correct" ELSE "wrong_direction"

C4_Witness ==
    /\ lastEvent.op = "validateMove"
    /\ santa.isSantaSays
    /\ santa.correctDirection = "left"
    /\ lastEvent.arg = "right"
    /\ lastEvent.reason = "wrong_direction"

\* C5: no more than maxConsecutiveTricks commands with isSantaSays false
\* are issued back-to-back in a session, whatever happens between them.
C5_NoLongTrickStreak == streak <= maxConsecutiveTricks

\* C6: consecutiveTricks stays within 0..maxConsecutiveTricks, and a
\* generateCommand call that starts with consecutiveTricks at the maximum
\* produces an authorized command whatever the random draw is and leaves
\* consecutiveTricks at 0.
C6_StreakGuard ==
    /\ santa.consecutiveTricks \in 0..maxConsecutiveTricks
    /\ (lastEvent.op = "generateCommand" /\ lastEvent.n = maxConsecutiveTricks) =>
            (santa.isSantaSays /\ santa.consecutiveTricks = 0)

C6_Witness ==
    /\ lastEvent.op = "generateCommand"
    /\ lastEvent.n = maxConsecutiveTricks
    /\ lastEvent.draw = FALSE
    /\ santa.isSantaSays
    /\ santa.consecutiveTricks = 0

\* C7: once validateMove has resolved a command no escalation timer of the
\* controller is live, and no Urgent transition or onTimeout callback fires
\* in a turn in which validateMove has already run.
C7_ValidateCancelsEscalation ==
    /\ turn.phase = "Resolved" => (SantaTimers = {} /\ santa.urgencyTimeout = 0)
    /\ lastEvent.op = "validateMove" => SantaTimers = {}
    /\ lastEvent.op \in {"urgent", "onTimeout"} => turn.validations = 0

C7_Witness ==
    /\ lastEvent.op = "validateMove"
    /\ lastEvent.n = 1
    /\ santa.isUrgent
    /\ turn.phase = "Resolved"

\* C8: within one turn at most one of validateMove and an onTimeout
\* callback executes.
C8_OneResolutionPerTurn == ~(turn.timeouts >= 1 /\ turn.validations >= 1)

\* C9: at most one escalation timer is live; it is the one the controller
\* holds the handle of, it was set for the active command and matches that
\* command's state; and every escalation callback that fires belongs to
\* the active command.
C9_SingleEscalationTimer ==
    /\ Cardinality(SantaTimers) <= 1
    /\ \A t \in SantaTimers :
            /\ ~t.old /\ ~t.orphan
            /\ t.id = santa.urgencyTimeout
            /\ Pending
            /\ t.kind = "urgency" => (santa.isSantaSays /\ ~santa.isUrgent)
            /\ t.kind = "timeout" => (santa.isSantaSays /\ santa.isUrgent)
            /\ t.kind = "patience" => ~santa.isSantaSays
    /\ lastEvent.op \in {"urgent", "onTimeout"} => ~lastEvent.stale
    /\ Pending => Cardinality(SantaTimers) = 1

C9_Witness ==
    /\ lastEvent.op = "urgent"
    /\ Cardinality(SantaTimers) = 1
    /\ \E t \in SantaTimers : t.kind = "timeout" /\ t.rem = urgencyDelay

\* C10: an authorized command left unanswered turns Urgent exactly one
\* urgencyDelay after it was issued, its 'timeout' callback fires exactly
\* once, two urgencyDelays after issuance and only from the Urgent state,
\* and the Game is then in the trap with reason 'timeout'.
C10_AuthorizedEscalation ==
    /\ lastEvent.op = "urgent" =>
            (lastEvent.n = urgencyDelay /\ santa.isUrgent /\ santa.isSantaSays)
    /\ (lastEvent.op = "onTimeout" /\ lastEvent.reason = "timeout") =>
            /\ lastEvent.n = 2 * urgencyDelay
            /\ santa.isUrgent /\ santa.isSantaSays
            /\ turn.timeouts = 1
            /\ ~game.isPlaying /\ ~game.canMove
            /\ game.trapReason = "timeout"
            /\ SantaTimers = {}
    /\ (Pending /\ santa.isSantaSays) =>
            /\ turn.phase = "Issued" <=> ~santa.isUrgent
            /\ turn.phase = "Issued" => turn.age <= urgencyDelay
            /\ turn.phase = "Urgent" =>
                    (turn.age >= urgencyDelay /\ turn.age <= 2 * urgencyDelay)
    /\ turn.timeouts <= 1

C10_Witness ==
    /\ lastEvent.op = "onTimeout"
    /\ lastEvent.reason = "timeout"
    /\ lastEvent.n = 2 * urgencyDelay
    /\ game.trapReason = "timeout"

WalkTimers == {t \in timers : t.kind = "walk"}

\* C11: an unauthorized command the player does not answer never escalates
\* (it stays Issued, never Urgent, and only a patience timer runs for it),
\* its 'timeout' callback never fires, its 'patience' callback fires once,
\* exactly one urgencyDelay after issuance, without a trap, and the Game
\* goes on: the next command is scheduled and, absent input, is generated.
C11_PatienceOnly ==
    /\ (Pending /\ ~santa.isSantaSays) =>
            /\ turn.phase = "Issued" /\ ~santa.isUrgent
            /\ turn.age <= urgencyDelay
            /\ \A t \in SantaTimers : t.kind = "patience"
    /\ (lastEvent.op = "onTimeout" /\ lastEvent.reason = "timeout") =>
            santa.isSantaSays
    /\ (lastEvent.op = "onTimeout" /\ lastEvent.reason = "patience") =>
            /\ lastEvent.n = urgencyDelay
            /\ ~santa.isSantaSays /\ ~santa.isUrgent
            /\ turn.timeouts = 1
            /\ game.isPlaying /\ game.trapReason = Null
            /\ SantaTimers = {}
            /\ \E t \in timers : t.kind = "holdDelay" /\ t.rem = holdDelay
    /\ (turn.phase = "Expired" /\ ~santa.isSantaSays /\ turn.validations = 0) =>
            /\ game.isPlaying /\ game.trapReason = Null
            /\ \E t \in timers : t.kind = "holdDelay"
            /\ lastEvent.op # "giveNextCommand"
    /\ (lastEvent.op = "generateCommand" /\ lastEvent.reason = "holdDelay") =>
            game.isPlaying

C11_Witness ==
    /\ lastEvent.op = "onTimeout"
    /\ lastEvent.reason = "patience"
    /\ lastEvent.n = urgencyDelay
    /\ turn.validations = 0
    /\ game.isPlaying

\* C12: the escalation callback (Issued to Urgent) changes only the
\* controller's urgency flag and timer handle: the commanded direction, the
\* correct direction, the authorization, the decoy flag and the streak
\* counter are what they were, and the Game's fields are untouched.
C12_EscalationFrame ==
    [][lastEvent'.op = "urgent" =>
            /\ santa'.currentDirection = santa.currentDirection
            /\ santa'.correctDirection = santa.correctDirection
            /\ santa'.isSantaSays = santa.isSantaSays
            /\ santa'.isSimonSays = santa.isSimonSays
            /\ santa'.consecutiveTricks = santa.consecutiveTricks
            /\ santa'.hardMode = santa.hardMode
            /\ game' = game]_vars

C12_Witness ==
    /\ lastEvent.op = "urgent"
    /\ santa.isUrgent /\ santa.isSantaSays
    /\ turn.phase = "Urgent"
    /\ santa.currentDirection = "left"

\* Index of the End waypoint, start pose and first move of the build
LastIndex ==
    IF game.variant = "maze" THEN PathLength - 1 ELSE CountdownLength - 1

StartPose ==
    IF game.variant = "maze" THEN PoseOf(WaypointAt(0))
    ELSE PoseOf(CountdownWaypointAt(0))

FirstMove ==
    IF game.variant = "maze" THEN WaypointAt(0).correctMove
    ELSE CountdownWaypointAt(0).correctMove

\* C13: in every reachable state of either build of the Game,
\* 0 <= pathIndex <= mazePath.length - 1.
C13_PathIndexInRange == game.pathIndex \in 0..LastIndex

C13_Witness ==
    /\ game.variant = "maze"
    /\ lastEvent.op = "advancePlayer"
    /\ game.pathIndex = PathLength - 1

\* C14: handleWin is called at most once per attempt and exactly when the
\* player reaches End by validated correct moves: once it has been called
\* the path position is End (counting the walk still being animated), and
\* a player at End has had it called.
C14_WinIffEnd ==
    /\ game.wins <= 1
    /\ game.wins >= 1 => game.pathIndex + Cardinality(WalkTimers) = LastIndex
    /\ game.pathIndex = LastIndex => game.wins >= 1
    /\ lastEvent.win => (lastEvent.op = "validateMove" /\ lastEvent.valid)

C17_PoseFollowsIndex ==
    /\ lastEvent.op = "advancePlayer" => game.pathIndex = lastEvent.at + 1
    /\ (lastEvent.op = "validateMove" /\ lastEvent.valid) =>
            /\ game.pathIndex = lastEvent.at
            /\ \E t \in WalkTimers : t.rem = walkDelay
    /\ Cardinality(WalkTimers) <= 1
    /\ WalkTimers = {} =>
            /\ game.pathIndex < PathLength
            /\ game.player = PoseOf(WaypointAt(game.pathIndex))

C17_Witness ==
    /\ lastEvent.op = "advancePlayer"
    /\ game.pathIndex = 3
    /\ game.player = [x |-> 31, y |-> 7, angle |-> "South"]

\* C16: a patience success leaves pathIndex where it was, increments no
\* progress counter and does not call handleWin.
C16_PatienceNoProgress ==
    (lastEvent.op = "onTimeout" /\ lastEvent.reason = "patience") =>
        /\ game.pathIndex = lastEvent.at
        /\ game.correctMoves = lastEvent.count
        /\ ~lastEvent.win

ResumePending == \E t \in timers : t.kind = "resumeDelay"

\* C18: every trap is followed, with no player action and only the clock
\* and the timer callbacks running, by a return to play: the Game never
\* leaves the game screen while trapped, and a trapped Game leads to a
\* state in which isPlaying is true again and the recovery's command has
\* just been generated.
C18_TrapRecovers ==
    /\ [](game.trapReason # Null => (game.screen = "game" /\ ~game.isPlaying))
    /\ (game.trapReason # Null) ~>
            (/\ lastEvent.op = "generateCommand"
             /\ lastEvent.reason = "resumeDelay"
             /\ game.isPlaying /\ game.canMove
             /\ game.screen = "game")

C18_Witness ==
    /\ lastEvent.op = "generateCommand"
    /\ lastEvent.reason = "resumeDelay"
    /\ game.isPlaying
    /\ lastEvent.prev # -1
    /\ game.pathIndex = 2

\* Every trap sends the player back to the start: hard mode of the maze
\* variant, and the countdown variant always
AlwaysResets == game.hardMode \/ game.variant = "countdown"

\* C19: where traps reset (hardMode on; always in the countdown variant),
\* the recovery from any trap sets pathIndex to 0 and the pose to the Start
\* pose before the next command, and that command is generated for
\* waypoint 0.
C19_HardResetsToStart ==
    /\ lastEvent.op = "resetToStart" =>
            /\ AlwaysResets
            /\ game.pathIndex = 0 /\ game.player = StartPose
            /\ game.isPlaying /\ ResumePending
    /\ lastEvent.op = "resumeFromCurrentPosition" => ~AlwaysResets
    /\ (AlwaysResets /\ ResumePending) =>
            /\ game.pathIndex = 0 /\ game.player = StartPose
            /\ WalkTimers = {}
    /\ (AlwaysResets /\ lastEvent.op = "generateCommand"
            /\ lastEvent.reason = "resumeDelay") =>
            /\ game.pathIndex = 0 /\ game.player = StartPose
            /\ lastEvent.at = 0
            /\ lastEvent.arg = FirstMove

C19_Witness ==
    /\ game.hardMode
    /\ lastEvent.op = "generateCommand"
    /\ lastEvent.reason = "resumeDelay"
    /\ lastEvent.prev = 5
    /\ game.pathIndex = 0

\* C20: with hardMode off, a trap and its recovery leave pathIndex and the
\* pose as they were when the failed command was issued, and the command
\* generated after the recovery is for that same waypoint.
C20_LenientKeepsPlace ==
    /\ (~game.hardMode /\ turn.at # -1
            /\ (game.trapReason # Null \/ ResumePending)) =>
            /\ game.pathIndex = turn.at
            /\ game.player = PoseOf(WaypointAt(turn.at))
    /\ (~game.hardMode /\ lastEvent.op = "generateCommand"
            /\ lastEvent.reason = "resumeDelay" /\ lastEvent.prev # -1) =>
            /\ game.pathIndex = lastEvent.prev
            /\ lastEvent.arg = WaypointAt(lastEvent.prev).correctMove
            /\ game.player = PoseOf(WaypointAt(lastEvent.prev))

C20_Witness ==
    /\ ~game.hardMode
    /\ lastEvent.op = "generateCommand"
    /\ lastEvent.reason = "resumeDelay"
    /\ lastEvent.prev = 4
    /\ game.pathIndex = 4

\* C21: the win is terminal for the attempt: from the call of handleWin
\* until the next startGame the Game is stopped, no command is generated,
\* no trap is triggered or recovered from, no escalation or timeout callback
\* runs (other than the one that signalled the win), and no hold, start,
\* resume, trap or controller timer is pending that could issue a command.
C21_WinIsTerminal ==
    game.wins >= 1 =>
        /\ ~game.isPlaying /\ ~game.canMove
        /\ game.trapReason = Null
        /\ lastEvent.op \notin {"generateCommand", "giveNextCommand", "urgent",
                                "handleTimeUp", "resetToStart",
                                "resumeFromCurrentPosition"}
        /\ lastEvent.op = "onTimeout" => lastEvent.win
        /\ \A t \in timers : t.kind \in {"walk", "win"}

C21_Witness ==
    /\ game.wins = 1
    /\ game.screen = "win"
    /\ lastEvent.op = "handleMoveIgnored"
    /\ timers = {}

\* C22: every attempt reset cancels the in-flight escalation timer: while
\* the Game is trapped, and right after a recovery, a start or a restart,
\* no controller timer is live; no live timer belongs to an earlier command
\* or an earlier controller; and no escalation or timeout callback that
\* runs is a stale one.
C22_ResetCancelsTimers ==
    /\ lastEvent.op \in {"urgent", "onTimeout"} => ~lastEvent.stale
    /\ game.trapReason # Null => (SantaTimers = {} /\ santa.urgencyTimeout = 0)
    /\ lastEvent.op \in {"resetToStart", "resumeFromCurrentPosition",
                         "startGame", "restartGame"} =>
            (SantaTimers = {} /\ santa.urgencyTimeout = 0)
    /\ \A t \in timers : ~t.old /\ ~t.orphan

C22_Witness ==
    /\ lastEvent.op = "handleTimeUp"
    /\ lastEvent.n = 1
    /\ SantaTimers = {}
    /\ game.trapReason = "time"

\* C23: a validateMove call made while the controller holds no command
\* yields an error outcome, not an ordinary judgment, and the Game does
\* not treat it as a player failure.
C23_ValidateNeedsCommand ==
    (lastEvent.op = "validateMove" /\ ~HasCommand) =>
        (lastEvent.reason = "error" /\ game.trapReason = Null)

C25_OneValidationPerCommand == turn.moves <= 1

\* C27: the solution table the game runs on is well formed: at least two
\* waypoints, the first of type start, the last of type end with a null
\* correctMove and no availableMoves, the others corridors or t-junctions,
\* one available move at a start or corridor and two at a t-junction, and
\* the correctMove among the availableMoves wherever there are any.
C27_TableWellFormed ==
    IF game.variant = "maze" THEN MazeTableWellFormed ELSE CountdownTableWellFormed

\* the countdown build has issued a command at a t-junction of its table
C27_Witness ==
    /\ game.variant = "countdown"
    /\ Pending
    /\ PathOf(game)[game.pathIndex + 1].type = "t-junction"
    /\ santa.correctDirection \in Range(PathOf(game)[game.pathIndex + 1].availableMoves)

\* C28: at the waypoint the player stands on, the cell is floor, every
\* listed availableMove has a floor cell next to the waypoint in its
\* direction, and the correctMove runs over floor to the next waypoint.
C28_MovesPhysicallyPossible ==
    game.pathIndex + 1 \in 1..Len(PathOf(game)) =>
        LET wp == PathOf(game)[game.pathIndex + 1]
        IN  /\ Cell(MazeOf(game), wp.x, wp.y) = 0
            /\ \A move \in Range(wp.availableMoves) :
                   MovePossible(MazeOf(game), wp, move)
            /\ wp.correctMove # Null =>
                   LeadsAlongFloor(MazeOf(game), wp, PathOf(game)[game.pathIndex + 2])

C30_CountdownState ==
    /\ game.timeRemaining \in 0..totalTime
    /\ Cardinality(IntervalTimers) = IF game.isPlaying THEN 1 ELSE 0
    /\ game.isPlaying => game.timeRemaining >= 1
    /\ lastEvent.op = "countdownTick" =>
           /\ lastEvent.valid
           /\ game.timeRemaining = lastEvent.count - 1
    /\ game.timeRemaining = 0 =>
           /\ game.trapReason = "time"
           /\ ~game.isPlaying
           /\ Cardinality(TrapTimers) = 1
    /\ lastEvent.op = "resetToStart" =>
           /\ game.timeRemaining = totalTime
           /\ game.pathIndex = 0
           /\ game.isPlaying

C30_CountdownStep ==
    game'.timeRemaining # game.timeRemaining =>
        \/ /\ lastEvent'.op = "countdownTick"
           /\ game.isPlaying
           /\ game'.timeRemaining = game.timeRemaining - 1
           /\ game'.timeRemaining = 0 <=> game'.trapReason = "time"
        \/ /\ lastEvent'.op \in {"startGame", "restartGame", "resetToStart"}
           /\ game'.timeRemaining = totalTime

C30_Countdown == [](C30_CountdownState) /\ [][C30_CountdownStep]_vars

\* the recovery from a 'time' trap has just restored the attempt
C30_Witness ==
    /\ lastEvent.op = "resetToStart"
    /\ lastEvent.reason = "time"
    /\ lastEvent.count = 0
    /\ lastEvent.at > 0
    /\ game.timeRemaining = totalTime
    /\ game.pathIndex = 0

\* C26: a player who answers every authorized command with the commanded
\* direction before it expires, and never moves otherwise, is never
\* trapped; at each waypoint at most maxConsecutiveTricks + 1 commands are
\* issued before the player moves on, and commands are issued in path
\* order, which makes at most (maxConsecutiveTricks + 1) * (mazePath.length
\* - 1) commands in a game; and every game that is played is won, the
\* player walking on to the End waypoint.
C26_PerfectSafe ==
    /\ game.trapReason = Null
    /\ \A t \in timers : t.kind # "trap"
    /\ turn.issued <= maxConsecutiveTricks + 1
    /\ turn.at <= game.pathIndex
    /\ turn.at <= LastIndex - 1
    /\ lastEvent.op = "generateCommand" => lastEvent.prev <= lastEvent.at
    /\ game.screen = "win" => game.pathIndex = LastIndex

C26_PerfectPlayWins ==
    /\ [](C26_PerfectSafe)
    /\ (game.isPlaying ~> (game.screen = "win" /\ game.pathIndex = LastIndex))

\* a game won after the longest wait the guard allows at the last waypoint
C26_Witness ==
    /\ game.wins = 1
    /\ game.pathIndex = LastIndex
    /\ turn.at = LastIndex - 1
    /\ turn.issued = maxConsecutiveTricks + 1
    /\ game.trapReason = Null

\* C31: each failure (a move judged 'didnt_say', 'simon_says' or
\* 'wrong_direction', and the 'timeout' expiry of a command) goes to
\* triggerTrap with its own reason code: right afterwards isPlaying and
\* canMove are false, the game timer is stopped, the escalation timer is
\* cleared and the recovery is scheduled; no timeout is dropped, and as long
\* as the reason stands the Game stays trapped.
C31_FailuresTrap ==
    LET Trapped(reason) ==
            /\ game.trapReason = reason
            /\ ~game.isPlaying /\ ~game.canMove /\ ~game.timerInterval
            /\ SantaTimers = {} /\ santa.urgencyTimeout = 0
            /\ Cardinality({t \in timers : t.kind = "trap"}) = 1
    IN  /\ (lastEvent.op = "validateMove" /\ ~lastEvent.valid) =>
                /\ lastEvent.reason \in {"didnt_say", "simon_says", "wrong_direction"}
                /\ Trapped(lastEvent.reason)
        /\ (lastEvent.op = "onTimeout" /\ lastEvent.reason = "timeout") =>
                (lastEvent.valid /\ Trapped("timeout"))
        /\ game.trapReason # Null => Trapped(game.trapReason)

C31_Witness ==
    /\ lastEvent.op = "onTimeout" /\ lastEvent.reason = "timeout"
    /\ game.trapReason = "timeout" /\ ~game.timerInterval

\* C32: validateMove changes nothing but the escalation timer: in every
\* controller state it leaves currentDirection, correctDirection,
\* isSantaSays, isSimonSays, isUrgent and consecutiveTricks (and every field
\* other than the timer handle) as they were, removes only the controller's
\* own pending timer, and a second call with the same direction changes
\* nothing more and returns the same result; and every handleMove that
\* validates leaves the six fields of the controller unchanged.
C32_ValidateFrame ==
    LET w == World(santa, timers)
        w1 == validateMove(w)
    IN  /\ [w1.santa EXCEPT !.urgencyTimeout = santa.urgencyTimeout] = santa
        /\ w1.santa.urgencyTimeout = 0
        /\ w1.timers \subseteq timers
        /\ (timers \ w1.timers) \subseteq {t \in timers : t.id = santa.urgencyTimeout}
        /\ validateMove(w1) = w1
        /\ \A d \in CompassDirections :
                validateResult(w1.santa, d) = validateResult(santa, d)

C32_ValidateStep ==
    lastEvent'.op = "validateMove" =>
        /\ santa'.currentDirection = santa.currentDirection
        /\ santa'.correctDirection = santa.correctDirection
        /\ santa'.isSantaSays = santa.isSantaSays
        /\ santa'.isSimonSays = santa.isSimonSays
        /\ santa'.isUrgent = santa.isUrgent
        /\ santa'.consecutiveTricks = santa.consecutiveTricks
        /\ lastEvent'.reason = validateResult(santa', lastEvent'.arg).reason

C32_ValidateMoveFrame == [](C32_ValidateFrame) /\ [][C32_ValidateStep]_vars

C32_Witness ==
    /\ lastEvent.op = "validateMove" /\ lastEvent.n = 1
    /\ santa.isUrgent /\ santa.urgencyTimeout = 0

\* C33: the Game never validates a move before the first command of an
\* attempt has been issued: while it is playing and the controller holds no
\* command (after startGame, and after a trap recovery), player input is
\* ignored, so every validateMove call finds a command.
C33_NoValidationBeforeCommand ==
    /\ (game.isPlaying /\ ~HasCommand) => ~game.canMove
    /\ lastEvent.op = "validateMove" => HasCommand

\* C34: in every reachable controller state isSimonSays implies that
\* isSantaSays is false, and a controller without hard mode never has
\* isSimonSays set, so no move is judged 'simon_says' outside hard mode.
C34_SimonOnlyInHardMode ==
    /\ santa.isSimonSays => ~santa.isSantaSays
    /\ ~santa.hardMode => ~santa.isSimonSays
    /\ (lastEvent.op = "validateMove" /\ lastEvent.reason = "simon_says") =>
            santa.hardMode
    /\ ~santa.hardMode =>
            \A d \in CompassDirections : validateResult(santa, d).reason # "simon_says"

C34_Witness ==
    /\ lastEvent.op = "validateMove" /\ lastEvent.reason = "simon_says"
    /\ santa.hardMode /\ santa.isSimonSays /\ ~santa.isSantaSays

\* C35: every Simon Says decoy names the correct direction: after a
\* generateCommand that set isSimonSays, the commanded direction is the
\* correctMove it was given, whatever the draws; a plain trick can name
\* each of forward, left and right.
C35_DirectionRanges ==
    \A correctMove \in KeyDirections :
        /\ {commandDirection(FALSE, TRUE, correctMove, rnd) : rnd \in Draws}
                = {correctMove}
        /\ {commandDirection(FALSE, FALSE, correctMove, rnd) : rnd \in Draws}
                = KeyDirections

C35_DecoyNamesCorrectMove ==
    /\ (lastEvent.op = "generateCommand" /\ santa.isSimonSays) =>
            /\ lastEvent.dir = lastEvent.arg
            /\ santa.currentDirection = santa.correctDirection
    /\ C35_DirectionRanges

C35_Witness ==
    /\ lastEvent.op = "generateCommand" /\ santa.isSimonSays
    /\ lastEvent.dir = "left" /\ lastEvent.arg = "left"

\* C36: a handleMove call made while isPlaying or canMove is false (during
\* a trap, after a win, during the hold after a correct move) changes
\* nothing: the controller, the Game record (pathIndex included) and the
\* timer set stay as they were, and no validateMove call is made.
C36_IgnoredStep ==
    (~game.isPlaying \/ ~game.canMove) =>
        /\ lastEvent'.op # "validateMove"
        /\ \A d \in CompassDirections :
                HandleMove(d) => UNCHANGED <<santa, game, timers, turn, streak>>

C36_IgnoredMoveChangesNothing == [][C36_IgnoredStep]_vars

C36_Witness ==
    /\ lastEvent.op = "handleMoveIgnored"
    /\ game.isPlaying /\ ~game.canMove
    /\ \E t \in timers : t.kind = "holdDelay"

\* C37: no command is issued while the Game is trapped, and a recovery is
\* followed by exactly one giveNextCommand: at most one giveNextCommand is
\* ever scheduled, right after a recovery it is the recovery's own (any
\* hold or start delay scheduled before the trap has run out, ignored,
\* during the trap), and none is scheduled while a command is pending.
C37_OneCommandAfterRecovery ==
    LET scheduled == {t \in timers : t.kind \in GiveNextKinds}
    IN  /\ Cardinality(scheduled) <= 1
        /\ game.trapReason # Null =>
                (~game.isPlaying /\ lastEvent.op # "generateCommand")
        /\ lastEvent.op = "generateCommand" => (game.isPlaying /\ scheduled = {})
        /\ lastEvent.op \in {"resetToStart", "resumeFromCurrentPosition"} =>
                \E t \in scheduled : t.kind = "resumeDelay" /\ t.rem = resumeDelay
        /\ Pending => scheduled = {}

C37_Witness ==
    /\ game.trapReason # Null
    /\ game.trapReason = "didnt_say" /\ turn.phase = "Expired"
    /\ lastEvent.op = "giveNextCommand" /\ lastEvent.reason = "not_playing"

\* C38: the Game never stalls while playing: whenever isPlaying is true
\* either the controller holds a command whose escalation timer is live,
\* or a giveNextCommand is scheduled; and giveNextCommand never runs with
\* isPlaying true at the End waypoint.
C38_NeverStalls ==
    /\ game.isPlaying =>
            \/ HasCommand /\ \E t \in SantaTimers : t.id = santa.urgencyTimeout
            \/ \E t \in timers : t.kind \in GiveNextKinds
    /\ ~(lastEvent.op = "giveNextCommand" /\ lastEvent.reason = "no_move")

C38_Witness ==
    /\ lastEvent.op = "validateMove" /\ lastEvent.valid
    /\ game.isPlaying /\ SantaTimers = {}
    /\ \E t \in timers : t.kind = "holdDelay"

\* C39: in the elapsed-time build timeElapsed never decreases between a
\* startGame and the win: it grows by one on a tick of the interval, which
\* runs only while playing, by exactly ten on a trap, and is left alone by
\* the trap recovery and by everything else; at most one interval is live
\* at any time, one exactly while playing, and none while trapped or won.
C39_ElapsedState ==
    /\ Cardinality(IntervalTimers) <= 1
    /\ game.isPlaying <=> IntervalTimers # {}
    /\ game.timerInterval <=> IntervalTimers # {}
    /\ (game.trapReason # Null \/ game.wins > 0) => IntervalTimers = {}
    /\ lastEvent.op = "elapsedTick" => lastEvent.valid
    /\ game.timeElapsed >= 0

C39_ElapsedStep ==
    LET grown == game'.timeElapsed - game.timeElapsed
    IN  /\ lastEvent'.op \notin {"startGame"} => grown \in {0, 1, trapPenalty}
        /\ grown = 1 <=> lastEvent'.op = "elapsedTick"
        /\ grown = trapPenalty <=> (game.trapReason = Null /\ game'.trapReason # Null)
        /\ lastEvent'.op \in {"resetToStart", "resumeFromCurrentPosition"} =>
                (grown = 0 /\ game'.isPlaying)
        /\ lastEvent'.op = "startGame" => game'.timeElapsed = 0

C39_ElapsedTime == [](C39_ElapsedState) /\ [][C39_ElapsedStep]_vars

C39_Witness ==
    /\ lastEvent.op = "resumeFromCurrentPosition"
    /\ game.timeElapsed = trapPenalty + 2
    /\ game.pathIndex > 0
    /\ Cardinality(IntervalTimers) = 1

TypeOK ==
    /\ santa.consecutiveTricks \in 0..(maxConsecutiveTricks + 1)
    /\ game.pathIndex \in 0..PathLength
    /\ game.timerInterval \in BOOLEAN
    /\ turn.phase \in {"None", "Issued", "Urgent", "Expired", "Resolved"}
====
